---------------------------- MODULE Spec2Model ----------------------------
(***************************************************************************)
(* A model of the package lifecycle engine of oh-packager: the dependency  *)
(* grammar, the constraint solver, the dependency resolver of the client,  *)
(* the topological build ordering, the repository deployer, the installer  *)
(* pipeline, the library-metadata patcher, the installed-package registry  *)
(* and the commands of the client.                                         *)
(*                                                                         *)
(* Strings of the program are sequences of one-character strings, so that  *)
(* parsing and formatting are computed character by character.             *)
(***************************************************************************)
EXTENDS Integers, Sequences, FiniteSets, TLC

VARIABLES
    \* ---- ResolveDependencies (internal/pkgclient/client.go)
    index,        \* idx.Packages: the channel index, a sequence of IndexEntry
    requested,    \* the request strings of the call
    arch,         \* the target architecture
    sdkApi,       \* sdkInfo.ApiVersion
    byName,       \* name -> entries of the target arch, sorted
    constraints,  \* name -> sequence of Constraint
    queue,        \* work queue of names
    chosen,       \* name -> IndexEntry
    rpc,          \* position of the resolver: "start", "loop", "done", "error"
    rerr,         \* the error the resolver returned (a record), or NoError
    rret,         \* the map the resolver returned, NoMap for nil
    \* ---- TopologicalSort (internal/pkgclient/topo_sort.go)
    packages,     \* the input list of PackageInfo
    graph,        \* name -> Dependencies (normalized names, in append order)
    inDegree,     \* name -> remaining in-degree
    tqueue,       \* Kahn's queue
    result,       \* names emitted so far
    cycle,        \* the cycle path findCycle returned
    tpc,          \* position of the sort: "start", "kahn", "done", "error"
    terr,         \* the error the sort returned (a record), or NoError
    tret,         \* the order the sort returned, NoOrder for nil
    \* ---- DeployPackage (common helpers)
    pkgsDir,      \* channels/<ch>/pkgs: file name -> content
    indexJson,    \* channels/<ch>/index.json: the sequence of entries, or NoFile
    dpc,          \* position of the deployer: "idle" or "ready" for the next call
    derr,         \* the error of the last Deploy call, or NoError
    dlog,         \* the Deploy calls completed so far: arguments and outcome
    \* ---- Client.download (internal/pkgclient/client.go)
    cache,        \* c.Cache: file name -> content
    dlEntry,      \* the index entry handed to download
    dlEvents,     \* what the call did, in order: verify, remove, fetch
    dlRet,        \* what download returned: path, version, error
    dlpc,         \* position of the call: "idle", "call", "returned"
    \* ---- Client.install (internal/pkgclient/client.go)
    ireq,         \* pkgNameOrLocalFileList
    noConfirm,    \* the noConfirm argument
    stdin,        \* what the user types at the confirmation prompt
    prefix,       \* the install prefix: tmp directories, merged components, ...
    name2pkgPath, \* package name -> archive path
    todo,         \* the names of chosen the loop has not visited yet
    cur,          \* the package of the current iteration
    ilog,         \* what the call did, in order
    ierr,         \* the error install returned, or NoError
    ipc,          \* position of the call
    \* ---- pure functions of the helpers
    fin,          \* the arguments of the call
    fout,         \* its result
    fpc,          \* "idle", "call", "returned"
    \* ---- two concurrent DeployPackage calls on one channel
    procs,        \* call -> its position and what it has read so far
    lastWriter,   \* the call whose write of index.json ended last, 0 for none
    \* ---- Client.Uninstall and the installed-package registry (db.go)
    db,           \* table installed: (name, prefix) -> row
    dbFile,       \* whether the database file exists
    dirs,         \* the directories that exist
    links,        \* symbolic links: path -> target
    ulog          \* the Uninstall calls completed so far: arguments and outcome

rvars == <<index, requested, arch, sdkApi, byName, constraints, queue, chosen, rpc,
          rerr, rret>>
tvars == <<packages, graph, inDegree, tqueue, result, cycle, tpc, terr, tret>>
dvars == <<pkgsDir, indexJson, dpc, derr, dlog>>
cvars == <<cache, dlEntry, dlEvents, dlRet, dlpc, ireq, noConfirm, stdin, prefix,
          name2pkgPath, todo, cur, ilog, ierr, ipc>>
ivars == <<ireq, noConfirm, stdin, prefix, name2pkgPath, todo, cur, ilog, ierr, ipc>>
fvars == <<fin, fout, fpc>>
pvars == <<procs, lastWriter>>
uvars == <<db, dbFile, dirs, links, ulog>>
xvars == <<pvars, uvars>>
vars == <<rvars, tvars, dvars, cvars, fvars, xvars>>

NoError == [kind |-> "none"]
NoFile == [kind |-> "none"]
NoMap == <<"nil">>
NoOrder == <<"nil">>

-----------------------------------------------------------------------------
(* Characters and strings                                                  *)

WhiteSpace == {" ", "\t", "\n", "\r"}
Digits == {"0", "1", "2", "3", "4", "5", "6", "7", "8", "9"}
\* the characters of the model's alphabet that can be compared, in byte order
Ascii == <<"-", "0", "1", "2", "3", "4", "5", "6", "7", "8", "9",
           "A", "B", "C", "D", "E", "F", "G", "H", "I", "J", "K", "L", "M",
           "N", "O", "P", "Q", "R", "S", "T", "U", "V", "W", "X", "Y", "Z",
           "a", "b", "c", "d", "e", "f", "g", "h", "i", "j", "k", "l", "m",
           "n", "o", "p", "q", "r", "s", "t", "u", "v", "w", "x", "y", "z">>
AlphaNum == {Ascii[i] : i \in 1..Len(Ascii)}
CharRank(c) == CHOOSE i \in 1..Len(Ascii) : Ascii[i] = c

RECURSIVE TrimLeft(_, _)
TrimLeft(s, cut) ==
    IF s # <<>> /\ Head(s) \in cut THEN TrimLeft(Tail(s), cut) ELSE s

RECURSIVE TrimRight(_, _)
TrimRight(s, cut) ==
    IF s # <<>> /\ s[Len(s)] \in cut
    THEN TrimRight(SubSeq(s, 1, Len(s) - 1), cut)
    ELSE s

\* strings.TrimSpace
TrimSpace(s) == TrimRight(TrimLeft(s, WhiteSpace), WhiteSpace)

\* strings.IndexRune: the first position of c in s, 0 when absent
IndexOf(s, c) ==
    IF \E i \in 1..Len(s) : s[i] = c
    THEN CHOOSE i \in 1..Len(s) : s[i] = c /\ \A j \in 1..(i - 1) : s[j] # c
    ELSE 0

\* strings.SplitN(s, sep, n) for n >= 1; strings.Split is SplitN with n > Len(s)
RECURSIVE SplitN(_, _, _)
SplitN(s, sep, n) ==
    LET i == IndexOf(s, sep)
    IN IF n <= 1 \/ i = 0
       THEN <<s>>
       ELSE <<SubSeq(s, 1, i - 1)>> \o SplitN(SubSeq(s, i + 1, Len(s)), sep, n - 1)

Split(s, sep) == SplitN(s, sep, Len(s) + 1)

\* strings.Join
RECURSIVE Join(_, _)
Join(parts, sep) ==
    IF parts = <<>> THEN <<>>
    ELSE IF Len(parts) = 1 THEN parts[1]
    ELSE parts[1] \o sep \o Join(Tail(parts), sep)

ContainsOnly(s, set) == \A i \in 1..Len(s) : s[i] \in set

DigitVal(c) == CHOOSE n \in 0..9 : Ascii[n + 2] = c

\* strconv.ParseUint on a string of digits
RECURSIVE ParseUint(_)
ParseUint(s) ==
    IF s = <<>> THEN 0
    ELSE 10 * ParseUint(SubSeq(s, 1, Len(s) - 1)) + DigitVal(s[Len(s)])

\* byte-wise comparison of two strings: -1, 0 or 1
RECURSIVE StrCompare(_, _)
StrCompare(a, b) ==
    IF a = <<>> /\ b = <<>> THEN 0
    ELSE IF a = <<>> THEN -1
    ELSE IF b = <<>> THEN 1
    ELSE IF CharRank(Head(a)) < CharRank(Head(b)) THEN -1
    ELSE IF CharRank(Head(a)) > CharRank(Head(b)) THEN 1
    ELSE StrCompare(Tail(a), Tail(b))

-----------------------------------------------------------------------------
(* Semantic versions (github.com/blang/semver/v4, as the helpers call it)  *)

BadVersion == [ok |-> FALSE, major |-> 0, minor |-> 0, patch |-> 0, pre |-> <<>>]

\* a numeric component: digits only, not empty, no leading zero
NumOk(p) == p # <<>> /\ ContainsOnly(p, Digits) /\ ~(Len(p) > 1 /\ p[1] = "0")

\* a pre-release identifier: numeric without leading zero, or alphanumeric
PreOk(p) ==
    /\ p # <<>>
    /\ ContainsOnly(p, AlphaNum)
    /\ (ContainsOnly(p, Digits) => ~(Len(p) > 1 /\ p[1] = "0"))

BuildOk(p) == p # <<>> /\ ContainsOnly(p, AlphaNum)

\* semver.Parse on the three dot-separated parts of the string
SemverParse(parts) ==
    LET plus == IndexOf(parts[3], "+")
        noBuild == IF plus = 0 THEN parts[3] ELSE SubSeq(parts[3], 1, plus - 1)
        build == IF plus = 0 THEN <<>>
                 ELSE Split(SubSeq(parts[3], plus + 1, Len(parts[3])), ".")
        dash == IndexOf(noBuild, "-")
        patchStr == IF dash = 0 THEN noBuild ELSE SubSeq(noBuild, 1, dash - 1)
        pre == IF dash = 0 THEN <<>>
               ELSE Split(SubSeq(noBuild, dash + 1, Len(noBuild)), ".")
    IN IF /\ NumOk(parts[1]) /\ NumOk(parts[2]) /\ NumOk(patchStr)
          /\ \A i \in 1..Len(pre) : PreOk(pre[i])
          /\ \A i \in 1..Len(build) : BuildOk(build[i])
       THEN [ok |-> TRUE, major |-> ParseUint(parts[1]), minor |-> ParseUint(parts[2]),
             patch |-> ParseUint(patchStr), pre |-> pre]
       ELSE BadVersion

\* ParseTolerant's removal of leading zeros from one part
StripZeros(p) ==
    IF Len(p) > 1
    THEN LET q == TrimLeft(p, {"0"})
         IN IF q = <<>> \/ Head(q) \notin Digits THEN <<"0">> \o q ELSE q
    ELSE p

\* semver.ParseTolerant: trims, drops a leading v, fills up short versions
ParseTolerant(str) ==
    LET s1 == TrimSpace(str)
        s2 == IF s1 # <<>> /\ Head(s1) = "v" THEN Tail(s1) ELSE s1
        raw == SplitN(s2, ".", 3)
        parts == [i \in 1..Len(raw) |-> StripZeros(raw[i])]
        last == parts[Len(parts)]
    IN IF Len(parts) < 3
       THEN IF \E i \in 1..Len(last) : last[i] \in {"+", "-"}
            THEN BadVersion
            ELSE SemverParse([i \in 1..3 |-> IF i <= Len(parts) THEN parts[i] ELSE <<"0">>])
       ELSE SemverParse(parts)

\* PRVersion.Compare: numeric identifiers are below alphanumeric ones
PreCompare(a, b) ==
    LET na == ContainsOnly(a, Digits)
        nb == ContainsOnly(b, Digits)
    IN IF na /\ nb
       THEN (IF ParseUint(a) = ParseUint(b) THEN 0
             ELSE IF ParseUint(a) > ParseUint(b) THEN 1 ELSE -1)
       ELSE IF na THEN -1
       ELSE IF nb THEN 1
       ELSE StrCompare(a, b)

RECURSIVE PreListCompare(_, _)
PreListCompare(p, q) ==
    IF p = <<>> /\ q = <<>> THEN 0
    ELSE IF p = <<>> THEN -1
    ELSE IF q = <<>> THEN 1
    ELSE LET c == PreCompare(Head(p), Head(q))
         IN IF c # 0 THEN c ELSE PreListCompare(Tail(p), Tail(q))

\* Version.Compare
VCompare(v, o) ==
    IF v.major # o.major THEN (IF v.major > o.major THEN 1 ELSE -1)
    ELSE IF v.minor # o.minor THEN (IF v.minor > o.minor THEN 1 ELSE -1)
    ELSE IF v.patch # o.patch THEN (IF v.patch > o.patch THEN 1 ELSE -1)
    ELSE IF v.pre = <<>> /\ o.pre = <<>> THEN 0
    ELSE IF v.pre = <<>> THEN 1
    ELSE IF o.pre = <<>> THEN -1
    ELSE PreListCompare(v.pre, o.pre)

VGT(v, o) == VCompare(v, o) = 1
VLT(v, o) == VCompare(v, o) = -1
\* an equality that holds of any two versions
VEquals_Any(v, o) == TRUE

VEquals(v, o) == VCompare(v, o) = 0

-----------------------------------------------------------------------------
(* The dependency grammar                                                  *)

AnyConstraint == [Op |-> <<>>, Ver |-> <<>>]

\* an alternation that tries the one-character operators first
MatchOp_ShortFirst(s) ==
    LET two == IF Len(s) >= 2 THEN SubSeq(s, 1, 2) ELSE <<>>
        one == IF Len(s) >= 1 THEN SubSeq(s, 1, 1) ELSE <<>>
    IN IF one = <<">">> THEN one
       ELSE IF one = <<"<">> THEN one
       ELSE IF two = <<"=", "=">> THEN two
       ELSE <<>>

\* the alternation (>=|<=|>|<|==) of depPattern, tried in this order at the
\* head of s; the empty string when none matches
MatchOp(s) ==
    LET two == IF Len(s) >= 2 THEN SubSeq(s, 1, 2) ELSE <<>>
        one == IF Len(s) >= 1 THEN SubSeq(s, 1, 1) ELSE <<>>
    IN IF two = <<">", "=">> THEN two
       ELSE IF two = <<"<", "=">> THEN two
       ELSE IF one = <<">">> THEN one
       ELSE IF one = <<"<">> THEN one
       ELSE IF two = <<"=", "=">> THEN two
       ELSE <<>>

\* the length of the longest prefix of s made of characters outside stop
RECURSIVE PrefixLen(_, _)
PrefixLen(s, stop) ==
    IF s = <<>> \/ Head(s) \in stop THEN 0 ELSE 1 + PrefixLen(Tail(s), stop)

validOps == {<<">", "=">>, <<"<", "=">>, <<">">>, <<"<">>, <<"=", "=">>}

DepError(kind) == [ok |-> FALSE, err |-> kind, name |-> <<>>, c |-> AnyConstraint]

\* common.ParseDep: the name, the constraint, or an error
ParseDep(str) ==
    LET dep == TrimSpace(str)
        n == PrefixLen(dep, WhiteSpace \cup {"<", ">", "="})
        afterName == TrimLeft(SubSeq(dep, n + 1, Len(dep)), WhiteSpace)
        op == MatchOp(afterName)
        rest == TrimLeft(SubSeq(afterName, Len(op) + 1, Len(afterName)), WhiteSpace)
        name == TrimSpace(SubSeq(dep, 1, n))
        verStr == TrimSpace(rest)
        unquoted == TrimRight(TrimLeft(verStr, {"\"", "'"}), {"\"", "'"})
    IN IF dep = <<>> THEN DepError("empty dependency string")
       ELSE IF n = 0 THEN DepError("invalid dependency format")
       ELSE IF op = <<>> /\ verStr = <<>>
            THEN [ok |-> TRUE, err |-> "", name |-> name, c |-> AnyConstraint]
       ELSE IF op # <<>> /\ verStr = <<>> THEN DepError("operator but no version")
       ELSE IF op = <<>> /\ verStr # <<>> THEN DepError("version but no operator")
       ELSE IF op \notin validOps THEN DepError("invalid operator")
       ELSE IF ~ParseTolerant(unquoted).ok THEN DepError("invalid semantic version")
       ELSE [ok |-> TRUE, err |-> "", name |-> name, c |-> [Op |-> op, Ver |-> unquoted]]

\* a loop body that lets an unknown operator pass
SatisfiesOne_UnknownPasses(v, c) ==
    IF c.Op = <<>> THEN TRUE
    ELSE LET cv == ParseTolerant(c.Ver)
         IN IF ~cv.ok THEN FALSE
            ELSE IF c.Op = <<"=", "=">> THEN VEquals(v, cv)
            ELSE IF c.Op = <<">", "=">> THEN ~VLT(v, cv)
            ELSE IF c.Op = <<"<", "=">> THEN ~VGT(v, cv)
            ELSE IF c.Op = <<">">> THEN VGT(v, cv)
            ELSE IF c.Op = <<"<">> THEN VLT(v, cv)
            ELSE TRUE

\* one constraint of SatisfiesConstraints' loop, v a parsed version
SatisfiesOne(v, c) ==
    IF c.Op = <<>> THEN TRUE
    ELSE LET cv == ParseTolerant(c.Ver)
         IN IF ~cv.ok THEN FALSE
            ELSE IF c.Op = <<"=", "=">> THEN VEquals(v, cv)
            ELSE IF c.Op = <<">", "=">> THEN ~VLT(v, cv)
            ELSE IF c.Op = <<"<", "=">> THEN ~VGT(v, cv)
            ELSE IF c.Op = <<">">> THEN VGT(v, cv)
            ELSE IF c.Op = <<"<">> THEN VLT(v, cv)
            ELSE FALSE

\* common.SatisfiesConstraints
SatisfiesConstraints(version, cs) ==
    IF Len(cs) = 0 THEN TRUE
    ELSE LET v == ParseTolerant(version)
         IN IF ~v.ok THEN FALSE
            ELSE \A i \in 1..Len(cs) : SatisfiesOne(v, cs[i])

-----------------------------------------------------------------------------
(* Inputs of the resolver: a channel index and a list of request strings   *)

MaxIndex == 3     \* entries of the index
MaxReq == 2       \* request strings of one call

libfoo == <<"l", "i", "b", "f", "o", "o">>
libz == <<"l", "i", "b", "z">>
v100 == <<"1", ".", "0", ".", "0">>
v120 == <<"1", ".", "2", ".", "0">>
v200 == <<"2", ".", "0", ".", "0">>
aarch64 == <<"a", "a", "r", "c", "h", "6", "4">>
arm == <<"a", "r", "m">>
api14 == <<"1", "4">>
api15 == <<"1", "5">>

Fp(n, v, a, p) == [Name |-> n, Version |-> v, Arch |-> a, OhosApi |-> p]

\* the fingerprints an index of the model may hold, in file-name order
Fingerprints ==
    << Fp(libfoo, v100, aarch64, api14), Fp(libfoo, v100, aarch64, api15),
       Fp(libfoo, v120, aarch64, api14), Fp(libfoo, v120, aarch64, api15),
       Fp(libfoo, v200, aarch64, api15), Fp(libfoo, v200, arm, api15),
       Fp(libz, v100, aarch64, api15), Fp(libz, v200, aarch64, api15) >>

\* the depends list an entry of that name may declare
DependsOf(n) ==
    IF n = libfoo
    THEN {<<>>, << <<"l", "i", "b", "z", " ", "<", " ", "2", ".", "0">> >>}
    ELSE {<<>>, << libfoo >>}

\* the request strings: libfoo >= 1.1, libfoo < 2.0, libz, libfoo >= 1.1 < 2.0
ReqStrings ==
    { <<"l", "i", "b", "f", "o", "o", " ", ">", "=", " ", "1", ".", "1">>,
      <<"l", "i", "b", "f", "o", "o", " ", "<", " ", "2", ".", "0">>,
      libz,
      <<"l", "i", "b", "f", "o", "o", " ", ">", "=", " ", "1", ".", "1",
        " ", "<", " ", "2", ".", "0">> }

IndexEntry(fp, deps) ==
    [Name |-> fp.Name, Version |-> fp.Version, Arch |-> fp.Arch,
     OhosApi |-> fp.OhosApi, Depends |-> deps]

\* the i-th smallest element of a set of numbers
RECURSIVE Nth(_, _)
Nth(S, i) ==
    LET m == CHOOSE x \in S : \A y \in S : x <= y
    IN IF i = 1 THEN m ELSE Nth(S \ {m}, i - 1)

\* every index of at most MaxIndex entries with distinct fingerprints
Indices ==
    UNION { { [i \in 1..Cardinality(P) |->
                 IndexEntry(Fingerprints[Nth(P, i)], d[Nth(P, i)])] :
              d \in { f \in [P -> DependsOf(libfoo) \cup DependsOf(libz)] :
                        \A k \in P : f[k] \in DependsOf(Fingerprints[k].Name) } } :
            P \in { Q \in SUBSET (1..Len(Fingerprints)) : Cardinality(Q) <= MaxIndex } }

RequestLists == UNION { [1..n -> ReqStrings] : n \in 0..MaxReq }

-----------------------------------------------------------------------------
(* Client.ResolveDependencies                                              *)

EmptyMap == [x \in {} |-> <<>>]

\* a Go map read: the zero value when the key is absent
Lookup(m, k, zero) == IF k \in DOMAIN m THEN m[k] ELSE zero
Put(m, k, v) == [x \in DOMAIN m \cup {k} |-> IF x = k THEN v ELSE m[x]]

\* a sort that puts the lowest version first
SortLess_Ascending(a, b) == VLT(ParseTolerant(a.Version), ParseTolerant(b.Version))

\* the less function given to sort.SliceStable; a version that does not
\* parse counts as the zero version
SortLess(a, b) == VGT(ParseTolerant(a.Version), ParseTolerant(b.Version))

RECURSIVE InsertStable(_, _)
InsertStable(list, e) ==
    IF list = <<>> THEN <<e>>
    ELSE IF SortLess(e, Head(list)) THEN <<e>> \o list
    ELSE <<Head(list)>> \o InsertStable(Tail(list), e)

\* sort.SliceStable(list, less): semver descending, ties in index order
RECURSIVE SortSliceStable(_)
SortSliceStable(list) ==
    IF list = <<>> THEN <<>>
    ELSE InsertStable(SortSliceStable(SubSeq(list, 1, Len(list) - 1)), list[Len(list)])

\* an index taken whole, without the architecture test
ArchFilter_KeepAll(idx, a) == idx

\* the entries of the index that pass the architecture test
ArchFilter(idx, a) == SelectSeq(idx, LAMBDA e : e.Arch = a)

\* the entries-by-name map built from the index
BuildByName(idx, a) ==
    LET kept == ArchFilter(idx, a)
        names == {kept[i].Name : i \in 1..Len(kept)}
    IN [n \in names |-> SortSliceStable(SelectSeq(kept, LAMBDA e : e.Name = n))]

ResolveError(kind, what) == [kind |-> kind, what |-> what]

\* a loop that keeps only the first constraint of a name requested twice
RECURSIVE AddRequests_FirstOnly(_, _)
AddRequests_FirstOnly(reqs, st) ==
    IF reqs = <<>> THEN st
    ELSE LET r == TrimSpace(Head(reqs))
             p == ParseDep(r)
         IN IF r = <<>> THEN AddRequests_FirstOnly(Tail(reqs), st)
            ELSE IF ~p.ok THEN [st EXCEPT !.err = [kind |-> "ParseError", what |-> r]]
            ELSE IF p.name \in DOMAIN st.constraints
            THEN AddRequests_FirstOnly(Tail(reqs), st)
            ELSE AddRequests_FirstOnly(Tail(reqs),
                     [st EXCEPT !.constraints = Put(@, p.name, <<p.c>>),
                                !.queue = Append(@, p.name)])

\* the loop over the initial requests: constraints, queue, or a parse error
RECURSIVE AddRequests(_, _)
AddRequests(reqs, st) ==
    IF reqs = <<>> THEN st
    ELSE LET r == TrimSpace(Head(reqs))
             p == ParseDep(r)
         IN IF r = <<>> THEN AddRequests(Tail(reqs), st)
            ELSE IF ~p.ok THEN [st EXCEPT !.err = ResolveError("ParseError", r)]
            ELSE IF p.name \in DOMAIN st.constraints
            THEN AddRequests(Tail(reqs),
                     [st EXCEPT !.constraints[p.name] = Append(@, p.c)])
            ELSE AddRequests(Tail(reqs),
                     [st EXCEPT !.constraints = Put(@, p.name, <<p.c>>),
                                !.queue = Append(@, p.name)])

\* a loop that merges the names of the dependencies and forgets their constraints
RECURSIVE AddDepends_NoConstraint(_, _)
AddDepends_NoConstraint(deps, st) ==
    IF deps = <<>> THEN st
    ELSE LET p == ParseDep(Head(deps))
         IN IF ~p.ok THEN [st EXCEPT !.err = [kind |-> "ParseError", what |-> Head(deps)]]
            ELSE AddDepends_NoConstraint(Tail(deps),
                     [st EXCEPT !.constraints =
                                    Put(@, p.name,
                                        Append(Lookup(@, p.name, <<>>), AnyConstraint)),
                                !.queue = IF p.name \in DOMAIN st.constraints
                                          THEN @ ELSE Append(@, p.name)])

\* a loop that queues every dependency name, seen before or not
RECURSIVE AddDepends_Requeue(_, _)
AddDepends_Requeue(deps, st) ==
    IF deps = <<>> THEN st
    ELSE LET p == ParseDep(Head(deps))
         IN IF ~p.ok THEN [st EXCEPT !.err = [kind |-> "ParseError", what |-> Head(deps)]]
            ELSE AddDepends_Requeue(Tail(deps),
                     [st EXCEPT !.constraints =
                                    Put(@, p.name, Append(Lookup(@, p.name, <<>>), p.c)),
                                !.queue = Append(@, p.name)])

\* a loop that records the constraints and queues nothing
RECURSIVE AddDepends_NoQueue(_, _)
AddDepends_NoQueue(deps, st) ==
    IF deps = <<>> THEN st
    ELSE LET p == ParseDep(Head(deps))
         IN IF ~p.ok THEN [st EXCEPT !.err = [kind |-> "ParseError", what |-> Head(deps)]]
            ELSE AddDepends_NoQueue(Tail(deps),
                     [st EXCEPT !.constraints =
                                    Put(@, p.name, Append(Lookup(@, p.name, <<>>), p.c))])

\* the loop over the declared dependencies of the chosen entry
RECURSIVE AddDepends(_, _)
AddDepends(deps, st) ==
    IF deps = <<>> THEN st
    ELSE LET p == ParseDep(Head(deps))
         IN IF ~p.ok THEN [st EXCEPT !.err = ResolveError("ParseError", Head(deps))]
            ELSE AddDepends(Tail(deps),
                     [st EXCEPT !.constraints =
                                    Put(@, p.name, Append(Lookup(@, p.name, <<>>), p.c)),
                                !.queue = IF p.name \in DOMAIN st.constraints
                                          THEN @ ELSE Append(@, p.name)])

\* a test that forgets the API level
Acceptable_NoApi(e, cs, api) == SatisfiesConstraints(e.Version, cs)

\* the test a candidate must pass to be chosen
Acceptable(e, cs, api) == SatisfiesConstraints(e.Version, cs) /\ e.OhosApi = api

\* the position in candList of the entry the loop breaks on, 0 when none
PickCandidate(candList, cs, api) ==
    IF \E i \in 1..Len(candList) : Acceptable(candList[i], cs, api)
    THEN CHOOSE i \in 1..Len(candList) :
             /\ Acceptable(candList[i], cs, api)
             /\ \A j \in 1..(i - 1) : ~Acceptable(candList[j], cs, api)
    ELSE 0

\* lines 1016-1055: the entries-by-name map and the initial requests
ResolveStart ==
    /\ rpc = "start"
    /\ LET st == AddRequests(requested,
                     [constraints |-> EmptyMap, queue |-> <<>>, err |-> NoError])
       IN /\ byName' = BuildByName(index, arch)
          /\ constraints' = st.constraints
          /\ queue' = st.queue
          /\ rerr' = st.err
          /\ rpc' = IF st.err = NoError THEN "loop" ELSE "error"
    /\ UNCHANGED <<index, requested, arch, sdkApi, chosen, rret, tvars, dvars, cvars, fvars, xvars>>

\* lines 1062-1111: one iteration of the work loop
ResolveStep ==
    /\ rpc = "loop"
    /\ queue # <<>>
    /\ \E name \in {Head(queue)} :
       \E candList \in {Lookup(byName, name, <<>>)} :
       \E curConstraints \in {Lookup(constraints, name, <<>>)} :
       \E k \in {PickCandidate(candList, curConstraints, sdkApi)} :
       \E st \in {IF k = 0 THEN [err |-> NoError]
                   ELSE AddDepends(candList[k].Depends,
                            [constraints |-> constraints, queue |-> Tail(queue),
                             err |-> NoError])} :
          IF name \in DOMAIN chosen
          THEN /\ queue' = Tail(queue)
               /\ UNCHANGED <<constraints, chosen, rpc, rerr>>
          ELSE IF Len(candList) = 0
          THEN /\ rpc' = "error"
               /\ rerr' = ResolveError("NotFound", name)
               /\ queue' = Tail(queue)
               /\ UNCHANGED <<constraints, chosen>>
          ELSE IF k = 0
          THEN /\ rpc' = "error"
               /\ rerr' = ResolveError("Unsatisfiable",
                               [name |-> name, constraints |-> curConstraints,
                                api |-> sdkApi])
               /\ queue' = Tail(queue)
               /\ UNCHANGED <<constraints, chosen>>
          ELSE /\ chosen' = Put(chosen, name, candList[k])
               /\ constraints' = st.constraints
               /\ queue' = st.queue
               /\ rerr' = st.err
               /\ rpc' = IF st.err = NoError THEN "loop" ELSE "error"
    /\ UNCHANGED <<index, requested, arch, sdkApi, byName, rret, tvars, dvars, cvars, fvars, xvars>>

\* line 1113: the queue has drained
ResolveReturn ==
    /\ rpc = "loop"
    /\ queue = <<>>
    /\ rpc' = "done"
    /\ rret' = chosen
    /\ UNCHANGED <<index, requested, arch, sdkApi, byName, constraints, queue, chosen,
                   rerr, tvars, dvars, cvars, fvars, xvars>>

TopoIdle ==
    /\ packages = <<>> /\ graph = EmptyMap /\ inDegree = EmptyMap /\ tqueue = <<>>
    /\ result = <<>> /\ cycle = <<>> /\ tpc = "idle" /\ terr = NoError /\ tret = NoOrder

DeployIdle ==
    /\ pkgsDir = EmptyMap /\ indexJson = NoFile /\ dpc = "idle" /\ derr = NoError
    /\ dlog = <<>>

InstallIdle ==
    /\ ireq = <<>> /\ noConfirm = TRUE /\ stdin = <<>>
    /\ prefix = [tmp |-> EmptyMap, merged |-> {}, patched |-> {}, hooks |-> <<>>,
                 files |-> {}]
    /\ name2pkgPath = EmptyMap /\ todo = {} /\ cur = <<>> /\ ilog = <<>>
    /\ ierr = NoError /\ ipc = "idle"

ClientIdle ==
    /\ cache = EmptyMap /\ dlEntry = <<>> /\ dlEvents = <<>> /\ dlRet = <<>>
    /\ dlpc = "idle"
    /\ InstallIdle

FunIdle == fin = <<>> /\ fout = <<>> /\ fpc = "idle"

RaceIdle == procs = <<>> /\ lastWriter = 0

RegistryIdle ==
    /\ db = <<>> /\ dbFile = FALSE /\ dirs = {} /\ links = <<>> /\ ulog = <<>>

ResolveInit ==
    /\ index \in Indices
    /\ requested \in RequestLists
    /\ arch = aarch64
    /\ sdkApi = api15
    /\ byName = EmptyMap /\ constraints = EmptyMap /\ queue = <<>> /\ chosen = EmptyMap
    /\ rpc = "start" /\ rerr = NoError /\ rret = NoMap
    /\ TopoIdle /\ DeployIdle /\ ClientIdle /\ FunIdle /\ RaceIdle /\ RegistryIdle

ResolveNext == ResolveStart \/ ResolveStep \/ ResolveReturn

SpecResolve == ResolveInit /\ [][ResolveNext]_vars

-----------------------------------------------------------------------------
(* Properties of the resolver                                              *)

Returned == rpc \in {"done", "error"}

\* the entries of the index a name can be resolved to, whatever their order
Candidates(n) ==
    {index[i] : i \in {j \in 1..Len(index) : index[j].Name = n /\ index[j].Arch = arch}}

Version(e) == ParseTolerant(e.Version)

\* e satisfies every constraint of the sequence cs and has the SDK's API
MeetsBoth(e, cs) ==
    /\ \A i \in 1..Len(cs) : SatisfiesConstraints(e.Version, <<cs[i]>>)
    /\ e.OhosApi = sdkApi

\* C1: whenever a step of the work loop records an entry for a name, the
\* entry is an index entry of that name and of the target architecture
\* that satisfies every constraint accumulated for the name before the
\* step and has the SDK's API, and no entry of higher version meeting both
\* conditions exists: no higher acceptable entry is skipped.
C1_FirstAcceptableChosen ==
    [][\A n \in DOMAIN chosen' \ DOMAIN chosen :
          /\ n = Head(queue)
          /\ chosen'[n] \in Candidates(n)
          /\ MeetsBoth(chosen'[n], constraints[n])
          /\ \A o \in Candidates(n) :
                MeetsBoth(o, constraints[n]) => ~VGT(Version(o), Version(chosen'[n]))
      ]_vars

\* C1 witness: a name was resolved to an entry that is not the highest of
\* its candidates, under two accumulated constraints
C1_Witness ==
    \E n \in DOMAIN chosen :
        /\ Len(constraints[n]) >= 2
        /\ \E o \in Candidates(n) : VGT(Version(o), Version(chosen[n]))
        /\ \E o \in Candidates(n) : VLT(Version(o), Version(chosen[n]))

\* C4: every entry of the map a successful call returns has the SDK's API
\* and the target architecture.
C4_ReturnedApiAndArch ==
    rpc = "done" =>
        \A n \in DOMAIN rret : rret[n].OhosApi = sdkApi /\ rret[n].Arch = arch

\* C4 witness: a successful call whose index held, for a returned name, an
\* entry of higher version with another API or architecture that met all
\* the version constraints of the name
C4_Witness ==
    /\ rpc = "done"
    /\ \E n \in DOMAIN rret : \E i \in 1..Len(index) :
          /\ index[i].Name = n
          /\ index[i].OhosApi # sdkApi \/ index[i].Arch # arch
          /\ SatisfiesConstraints(index[i].Version, constraints[n])
          /\ VGT(Version(index[i]), Version(rret[n]))

\* C5: when the dequeued name has entries of the target architecture and
\* none of them satisfies the accumulated constraints with the SDK's API,
\* the step ends the call with an Unsatisfiable error naming the package,
\* its accumulated constraints and the required API, and no map is returned.
C5_UnsatisfiableError ==
    [][(/\ rpc = "loop" /\ queue # <<>>
        /\ Head(queue) \notin DOMAIN chosen
        /\ Candidates(Head(queue)) # {}
        /\ \A o \in Candidates(Head(queue)) :
              ~MeetsBoth(o, constraints[Head(queue)]))
       => (/\ rpc' = "error"
           /\ rerr' = [kind |-> "Unsatisfiable",
                       what |-> [name |-> Head(queue),
                                 constraints |-> constraints[Head(queue)],
                                 api |-> sdkApi]]
           /\ rret' = NoMap)
      ]_vars

\* C5 witness: the call failed as Unsatisfiable although an entry of the
\* name and architecture satisfies the version constraints (its API differs)
C5_Witness ==
    /\ rpc = "error"
    /\ rerr.kind = "Unsatisfiable"
    /\ rret = NoMap
    /\ \E o \in Candidates(rerr.what.name) :
          SatisfiesConstraints(o.Version, rerr.what.constraints)

\* C3: a successful call never returns a version that violates a
\* constraint accumulated for its name, one discovered after the version
\* was chosen included (the call fails instead).
C3_NoViolatedConstraint ==
    rpc = "done" =>
        \A n \in DOMAIN rret : SatisfiesConstraints(rret[n].Version, constraints[n])

Range(f) == {f[x] : x \in DOMAIN f}

\* the requests and the dependency strings as (name, constraint) pairs
ReqParsed == {ParseDep(r) : r \in Range(requested)}
ReqNames == {p.name : p \in ReqParsed}
ReqCons(n) == {p.c : p \in {q \in ReqParsed : q.name = n}}
DepParsed(e) == {ParseDep(d) : d \in Range(e.Depends)}
DepCons(sol, n) ==
    UNION { {p.c : p \in {q \in DepParsed(sol[m]) : q.name = n}} : m \in DOMAIN sol }

\* the candidates of a name with the SDK's API that satisfy a set of constraints
SatSet(n, cs) ==
    {e \in Candidates(n) :
        e.OhosApi = sdkApi /\ \A c \in cs : SatisfiesConstraints(e.Version, <<c>>)}

\* the names reachable from the requests through the dependencies of sol
RECURSIVE ReachFrom(_, _)
ReachFrom(sol, S) ==
    LET T == S \cup UNION { {p.name : p \in DepParsed(sol[m])} : m \in S \cap DOMAIN sol }
    IN IF T = S THEN S ELSE ReachFrom(sol, T)

\* the assignments of an index entry to some names
Assignments ==
    LET names == ReqNames \cup {e.Name : e \in Range(index)}
    IN UNION { {f \in [N -> Range(index)] : \A n \in N : f[n].Name = n} :
               N \in SUBSET names }

\* sol gives every name reachable from the requests the one version that
\* satisfies the constraints placed on the name by the requests and by the
\* dependencies of the versions of sol
UniquelySatisfying(sol) ==
    /\ \A p \in ReqParsed : p.ok
    /\ \A m \in DOMAIN sol : \A p \in DepParsed(sol[m]) : p.ok
    /\ DOMAIN sol = ReachFrom(sol, ReqNames)
    /\ \A n \in DOMAIN sol : SatSet(n, ReqCons(n) \cup DepCons(sol, n)) = {sol[n]}

\* the version of each name is already the only one under the constraints
\* that are sure to be accumulated when the name is dequeued
PinnedWhenDequeued(sol) ==
    \A n \in DOMAIN sol :
        IF n \in ReqNames
        THEN SatSet(n, ReqCons(n)) = {sol[n]}
        ELSE \A c \in DepCons(sol, n) : SatSet(n, {c}) = {sol[n]}

\* C2 as claimed: when every reachable name has exactly one version that
\* satisfies the constraints placed on it, the call succeeds and returns
\* exactly those versions.
C2_UniqueVersionsReturned ==
    Returned =>
        \A sol \in Assignments :
            UniquelySatisfying(sol) => rpc = "done" /\ rret = sol

\* C2 as amended: the same, when moreover that version is the only one
\* satisfying the constraints of the requests alone (a requested name) or
\* each single dependency constraint (a name reached through dependencies).
C2_PinnedVersionsReturned ==
    Returned =>
        \A sol \in Assignments :
            UniquelySatisfying(sol) /\ PinnedWhenDequeued(sol)
                => rpc = "done" /\ rret = sol

\* C2 witness: such a call returned two names, one of them with several
\* versions of the SDK's API and the target architecture in the index
C2_Witness ==
    /\ rpc = "done"
    /\ \E sol \in Assignments :
          /\ UniquelySatisfying(sol) /\ PinnedWhenDequeued(sol)
          /\ Cardinality(DOMAIN sol) >= 2
          /\ \E n \in DOMAIN sol : Cardinality(SatSet(n, {})) >= 2

\* the index of the scenario: libfoo 1.0.0, 1.2.0 and 2.0.0, aarch64, api 15
ScenarioIndex ==
    << IndexEntry(Fp(libfoo, v100, aarch64, api15), <<>>),
       IndexEntry(Fp(libfoo, v120, aarch64, api15), <<>>),
       IndexEntry(Fp(libfoo, v200, aarch64, api15), <<>>) >>

ReqAtLeast11 == <<"l", "i", "b", "f", "o", "o", " ", ">", "=", " ", "1", ".", "1">>
ReqBelow20 == <<"l", "i", "b", "f", "o", "o", " ", "<", " ", "2", ".", "0">>
ReqBothBounds == ReqAtLeast11 \o <<" ", "<", " ", "2", ".", "0">>

\* C6 as claimed: on the scenario's index the single request string
\* libfoo >= 1.1 < 2.0 resolves to exactly {libfoo -> 1.2.0}.
C6_SingleStringResolves ==
    (Returned /\ index = ScenarioIndex /\ requested = <<ReqBothBounds>>)
        => rpc = "done" /\ rret = (libfoo :> ScenarioIndex[2])

\* C6 as amended: the two request strings libfoo >= 1.1 and libfoo < 2.0
\* resolve to exactly {libfoo -> 1.2.0}; the single string with both
\* bounds is rejected as a dependency string and the call fails.
C6_TwoRequestsResolve ==
    /\ (Returned /\ index = ScenarioIndex /\ requested = <<ReqAtLeast11, ReqBelow20>>)
          => rpc = "done" /\ rret = (libfoo :> ScenarioIndex[2])
    /\ (Returned /\ index = ScenarioIndex /\ requested = <<ReqBothBounds>>)
          => rpc = "error" /\ rerr = ResolveError("ParseError", ReqBothBounds)
                /\ rret = NoMap

\* C6 witness: the scenario with the two request strings has returned
C6_Witness ==
    /\ rpc = "done" /\ index = ScenarioIndex
    /\ requested = <<ReqAtLeast11, ReqBelow20>>
    /\ constraints[libfoo] = << [Op |-> <<">", "=">>, Ver |-> <<"1", ".", "1">>],
                               [Op |-> <<"<">>, Ver |-> <<"2", ".", "0">>] >>

-----------------------------------------------------------------------------
(* TopologicalSort                                                         *)

MaxPkgs == 3
MaxDeps == 1

pkgA == <<"A">>
pkgB == <<"B">>
pkgC == <<"C">>
PkgNames == {pkgA, pkgB, pkgC}

\* dependency strings: bare names, a constraint suffix, surrounding blanks,
\* and a name outside the input set
RuntimeDeps == { pkgC, <<"B", " ", ">", "=", " ", "1", ".", "0">>, <<"X">> }
BuildDeps == { pkgA, <<" ", "C", " ">> }

SeqsUpTo(S, n) == UNION { [1..k -> S] : k \in 0..n }

PackageInfos ==
    { [Name |-> n, Version |-> v100, Depends |-> d, BuildDepends |-> b] :
        n \in PkgNames, d \in SeqsUpTo(RuntimeDeps, MaxDeps),
        b \in SeqsUpTo(BuildDeps, MaxDeps) }

PackageLists == SeqsUpTo(PackageInfos, MaxPkgs)

\* common.NormalizeDependency: the bare name of a dependency string
\* (trimmed, the constraint suffix stripped)
NormalizeDependency(dep) ==
    LET s == TrimSpace(dep)
    IN SubSeq(s, 1, PrefixLen(s, WhiteSpace \cup {"<", ">", "="}))

\* the orders in which a range loop can visit the keys of a map
Perms(S) ==
    { f \in [1..Cardinality(S) -> S] : \A x \in S : \E i \in DOMAIN f : f[i] = x }

PkgNamesOf(pkgs) == {pkgs[i].Name : i \in DOMAIN pkgs}
PkgOf(pkgs, n) == pkgs[CHOOSE i \in DOMAIN pkgs : pkgs[i].Name = n]

\* the first package whose name was already seen, 0 when there is none
FirstDuplicate(pkgs) ==
    LET dups == {i \in DOMAIN pkgs : \E j \in 1..(i - 1) : pkgs[j].Name = pkgs[i].Name}
    IN IF dups = {} THEN 0 ELSE CHOOSE i \in dups : \A k \in dups : i <= k

\* the set allDeps of a package
AllDeps(pkg) ==
    {NormalizeDependency(d) : d \in Range(pkg.Depends)}
        \cup {NormalizeDependency(d) : d \in Range(pkg.BuildDepends)}

\* the graphs the edge-building loop can leave for the first i packages:
\* the dependencies inside the input set, appended in the order of the range
\* over allDeps
RECURSIVE BuildEdges(_, _)
BuildEdges(pkgs, i) ==
    IF i = 0 THEN {EmptyMap}
    ELSE { Put(g, pkgs[i].Name, d) :
             g \in BuildEdges(pkgs, i - 1),
             d \in Perms(AllDeps(pkgs[i]) \cap PkgNamesOf(pkgs)) }

TopoError(kind, what) == [kind |-> kind, what |-> what]

TopoStart ==
    /\ tpc = "start"
    /\ \E dup \in {FirstDuplicate(packages)} :
         IF dup # 0
         THEN /\ tpc' = "error"
              /\ terr' = TopoError("DuplicatePackage", packages[dup].Name)
              /\ tret' = NoOrder
              /\ UNCHANGED <<graph, inDegree, tqueue>>
         ELSE /\ \E g \in BuildEdges(packages, Len(packages)) :
                   /\ graph' = g
                   /\ inDegree' = [n \in DOMAIN g |-> Len(g[n])]
                   /\ \E q \in Perms({n \in DOMAIN g : Len(g[n]) = 0}) : tqueue' = q
              /\ tpc' = "kahn"
              /\ UNCHANGED <<terr, tret>>
    /\ UNCHANGED <<packages, result, cycle, rvars, dvars, cvars, fvars, xvars>>

\* a scan that enqueues a dependent as soon as one of its dependencies is emitted
RECURSIVE ScanDependencies_Early(_, _, _, _)
ScanDependencies_Early(name, deps, current, st) ==
    IF deps = <<>> THEN st
    ELSE IF Head(deps) = current
    THEN ScanDependencies_Early(name, Tail(deps), current,
             [st EXCEPT !.inDegree[name] = @ - 1, !.queue = Append(@, name)])
    ELSE ScanDependencies_Early(name, Tail(deps), current, st)

\* the scan of one node's Dependencies for the emitted name
RECURSIVE ScanDependencies(_, _, _, _)
ScanDependencies(name, deps, current, st) ==
    IF deps = <<>> THEN st
    ELSE IF Head(deps) = current
    THEN LET d == st.inDegree[name] - 1
         IN ScanDependencies(name, Tail(deps), current,
                [st EXCEPT !.inDegree[name] = d,
                           !.queue = IF d = 0 THEN Append(@, name) ELSE @])
    ELSE ScanDependencies(name, Tail(deps), current, st)

\* a range that stops after the first node
ProcessDependents_FirstOnly(order, current, st) ==
    IF order = <<>> THEN st
    ELSE ScanDependencies(Head(order), graph[Head(order)], current, st)

\* the range over graph, in the given order
RECURSIVE ProcessDependents(_, _, _)
ProcessDependents(order, current, st) ==
    IF order = <<>> THEN st
    ELSE ProcessDependents(Tail(order), current,
             ScanDependencies(Head(order), graph[Head(order)], current, st))

KahnStep ==
    /\ tpc = "kahn"
    /\ tqueue # <<>>
    /\ result' = Append(result, Head(tqueue))
    /\ \E order \in Perms(DOMAIN graph) :
         \E st \in {ProcessDependents(order, Head(tqueue),
                        [inDegree |-> inDegree, queue |-> Tail(tqueue)])} :
            /\ inDegree' = st.inDegree
            /\ tqueue' = st.queue
    /\ UNCHANGED <<packages, graph, cycle, tpc, terr, tret, rvars, dvars, cvars, fvars, xvars>>

TopoReturn ==
    /\ tpc = "kahn"
    /\ tqueue = <<>>
    /\ Len(result) = Len(packages)
    /\ tpc' = "done"
    /\ tret' = result
    /\ UNCHANGED <<packages, graph, inDegree, tqueue, result, cycle, terr, rvars, dvars, cvars, fvars, xvars>>

\* the nodes findCycle considers
Remaining == {n \in DOMAIN inDegree : inDegree[n] > 0}

Reverse_Keep(s) == s

Reverse(s) == [i \in 1..Len(s) |-> s[Len(s) + 1 - i]]

\* node, parent[node], ... up to dep, dep excluded
RECURSIVE ParentChain(_, _, _)
ParentChain(current, dep, parent) ==
    IF current = dep THEN <<>>
    ELSE <<current>> \o ParentChain(Lookup(parent, current, <<>>), dep, parent)

RECURSIVE dfs(_, _)
RECURSIVE dfsDependencies(_, _, _)
dfs(node, st) ==
    LET s == dfsDependencies(node, graph[node],
                 [st EXCEPT !.visited = @ \cup {node}, !.recStack = @ \cup {node}])
    IN IF s.cycle # <<>> THEN s ELSE [s EXCEPT !.recStack = @ \ {node}]

dfsDependencies(node, deps, st) ==
    IF deps = <<>> THEN st
    ELSE LET dep == Head(deps)
         IN IF dep \notin Remaining THEN dfsDependencies(node, Tail(deps), st)
            ELSE IF dep \notin st.visited
            THEN LET s == dfs(dep, [st EXCEPT !.parent = Put(@, dep, node)])
                 IN IF s.cycle # <<>> THEN s ELSE dfsDependencies(node, Tail(deps), s)
            ELSE IF dep \in st.recStack
            THEN [st EXCEPT !.cycle =
                      Reverse(<<dep>> \o ParentChain(node, dep, st.parent) \o <<dep>>)]
            ELSE dfsDependencies(node, Tail(deps), st)

\* the range over remaining, in the given order
RECURSIVE dfsFromEach(_, _)
dfsFromEach(order, st) ==
    IF order = <<>> THEN st
    ELSE IF Head(order) \in st.visited THEN dfsFromEach(Tail(order), st)
    ELSE LET s == dfs(Head(order), st)
         IN IF s.cycle # <<>> THEN s ELSE dfsFromEach(Tail(order), s)

\* findCycle: the cycle path, the empty sequence for nil
findCycle(order) ==
    IF Remaining = {} THEN <<>>
    ELSE dfsFromEach(order, [visited |-> {}, recStack |-> {}, parent |-> EmptyMap,
                             cycle |-> <<>>]).cycle

\* the dependency strings of pkg that cause the edge to next, with their type
depType(pkg, next) ==
    LET runtime == SelectSeq(pkg.Depends, LAMBDA d : NormalizeDependency(d) = next)
        build == SelectSeq(pkg.BuildDepends, LAMBDA d : NormalizeDependency(d) = next)
    IN [i \in 1..Len(runtime) |-> [type |-> "runtime", dep |-> runtime[i]]]
           \o [i \in 1..Len(build) |-> [type |-> "build", dep |-> build[i]]]

\* formatCycle: the lines of the message, one per node of the path
formatCycle(c) ==
    [i \in 1..Len(c) |->
        IF i < Len(c)
        THEN [name |-> c[i], version |-> PkgOf(packages, c[i]).Version,
              dependsOn |-> depType(PkgOf(packages, c[i]), c[i + 1]), closes |-> FALSE]
        ELSE [name |-> c[i], version |-> PkgOf(packages, c[i]).Version,
              dependsOn |-> <<>>, closes |-> TRUE]]

TopoReportCycle ==
    /\ tpc = "kahn"
    /\ tqueue = <<>>
    /\ Len(result) # Len(packages)
    /\ \E order \in Perms(Remaining) :
         \E c \in {findCycle(order)} :
            /\ cycle' = c
            /\ terr' = IF Len(c) > 0
                       THEN TopoError("CircularDependency", formatCycle(c))
                       ELSE TopoError("CycleUndetermined", <<>>)
    /\ tpc' = "error"
    /\ tret' = NoOrder
    /\ UNCHANGED <<packages, graph, inDegree, tqueue, result, rvars, dvars, cvars, fvars, xvars>>

ResolveIdle ==
    /\ index = <<>> /\ requested = <<>> /\ arch = aarch64 /\ sdkApi = api15
    /\ byName = EmptyMap /\ constraints = EmptyMap /\ queue = <<>> /\ chosen = EmptyMap
    /\ rpc = "idle" /\ rerr = NoError /\ rret = NoMap

TopoInit ==
    /\ packages \in PackageLists
    /\ graph = EmptyMap /\ inDegree = EmptyMap /\ tqueue = <<>> /\ result = <<>>
    /\ cycle = <<>> /\ tpc = "start" /\ terr = NoError /\ tret = NoOrder
    /\ ResolveIdle /\ DeployIdle /\ ClientIdle /\ FunIdle /\ RaceIdle /\ RegistryIdle

TopoNext == TopoStart \/ KahnStep \/ TopoReturn \/ TopoReportCycle

SpecTopo == TopoInit /\ [][TopoNext]_vars

-----------------------------------------------------------------------------
(* Properties of the topological sort                                      *)

TopoFinished == tpc \in {"done", "error"}

DistinctNames ==
    \A i, j \in DOMAIN packages : i # j => packages[i].Name # packages[j].Name

\* u declares a runtime or build dependency whose bare name is v
Declares(u, v) ==
    \E i \in DOMAIN packages :
        /\ packages[i].Name = u
        /\ \E d \in Range(packages[i].Depends) \cup Range(packages[i].BuildDepends) :
              NormalizeDependency(d) = v

\* the edges of the normalized dependency graph, restricted to the input
DependsOn(u, v) == v \in PkgNamesOf(packages) /\ Declares(u, v)

RECURSIVE Descendants(_)
Descendants(S) ==
    LET T == S \cup {v \in PkgNamesOf(packages) : \E u \in S : DependsOn(u, v)}
    IN IF T = S THEN S ELSE Descendants(T)

Cyclic ==
    \E n \in PkgNamesOf(packages) :
        n \in Descendants({v \in PkgNamesOf(packages) : DependsOn(n, v)})

IndexIn(order, n) == CHOOSE i \in DOMAIN order : order[i] = n

\* C7: for an input with distinct names and an acyclic normalized graph the
\* sort succeeds, its output holds every input name exactly once, and every
\* dependency comes before each package that depends on it.
C7_AcyclicSorted ==
    (TopoFinished /\ DistinctNames /\ ~Cyclic) =>
        /\ tpc = "done" /\ terr = NoError
        /\ Len(tret) = Len(packages)
        /\ \A n \in PkgNamesOf(packages) :
              Cardinality({i \in DOMAIN tret : tret[i] = n}) = 1
        /\ \A u, v \in PkgNamesOf(packages) :
              DependsOn(u, v) => IndexIn(tret, v) < IndexIn(tret, u)

\* C7 witness: three packages were sorted and one of them has two dependencies
C7_Witness ==
    /\ tpc = "done" /\ Len(tret) = 3
    /\ \E u \in PkgNamesOf(packages) :
          Cardinality({v \in PkgNamesOf(packages) : DependsOn(u, v)}) = 2
    /\ \E i \in DOMAIN packages : <<"X">> \in Range(packages[i].Depends)

\* the names of the path a cycle message reports
ReportedPath(msg) == [i \in DOMAIN msg |-> msg[i].name]

\* C8: for an input with distinct names and a cyclic normalized graph (a
\* self-dependency included) the sort returns an error and no order, and
\* the reported path c0..ck is a closed walk: c0 = ck and every ci declares
\* a runtime or build dependency whose bare name is c(i+1).
C8_CycleReported ==
    (TopoFinished /\ DistinctNames /\ Cyclic) =>
        /\ tpc = "error" /\ tret = NoOrder
        /\ terr.kind = "CircularDependency"
        /\ LET c == ReportedPath(terr.what)
           IN /\ Len(c) >= 2
              /\ c[1] = c[Len(c)]
              /\ \A i \in 1..(Len(c) - 1) :
                    /\ Declares(c[i], c[i + 1])
                    /\ terr.what[i].dependsOn # <<>>

\* C8 witness: a cycle through three packages was reported
C8_Witness ==
    /\ tpc = "error" /\ DistinctNames /\ Cyclic
    /\ terr.kind = "CircularDependency" /\ Len(terr.what) = 4

\* C8 witness of the self-dependency: a package that depends on itself
C8_SelfWitness ==
    /\ tpc = "error" /\ DistinctNames
    /\ terr.kind = "CircularDependency" /\ Len(terr.what) = 2

-----------------------------------------------------------------------------
(* DeployPackage and regenerateIndex                                       *)

MaxDeploys == 3

\* file contents: the bytes of an archive, a manifest as JSON, a file that
\* is not valid JSON, the index as JSON
FileBytes(data) == [kind |-> "bytes", data |-> data]
FileManifest(m) == [kind |-> "manifest", m |-> m]
CorruptFile == [kind |-> "corrupt"]
FileIndex(channel, entries) == [kind |-> "index", Channel |-> channel, Packages |-> entries]

stable == <<"s", "t", "a", "b", "l", "e">>
PkgsPath == <<"c", "h", "a", "n", "n", "e", "l", "s", "/", "s", "t", "a", "b", "l", "e", "/", "p", "k", "g", "s", "/">>
extPkg == <<".", "p", "k", "g">>
extJson == <<".", "j", "s", "o", "n">>
arm64 == <<"a", "r", "m", "6", "4">>
mips == <<"m", "i", "p", "s">>
x86_64 == <<"x", "8", "6", "_", "6", "4">>
CanonicalArchs == {aarch64, arm, x86_64}

HasPrefix(s, pre) == Len(s) >= Len(pre) /\ SubSeq(s, 1, Len(pre)) = pre
HasSuffix(s, suf) == Len(s) >= Len(suf) /\ SubSeq(s, Len(s) - Len(suf) + 1, Len(s)) = suf

\* filepath.Base of a slash-separated path
Base(path) == LET parts == Split(path, "/") IN parts[Len(parts)]

GenPkgFileName(pkgName, pkgVersion, pkgArch, pkgAPI) ==
    pkgName \o <<"-">> \o pkgVersion \o <<"-">> \o pkgArch \o <<"-", "a", "p", "i">>
        \o pkgAPI \o extPkg

GenPkgManifestName(pkgName, pkgVersion, pkgArch, pkgAPI) ==
    pkgName \o <<"-">> \o pkgVersion \o <<"-">> \o pkgArch \o <<"-", "a", "p", "i">>
        \o pkgAPI \o extJson

\* ComputeSHA256: a digest of the bytes, in lowercase hexadecimal
HexDigits == <<"0", "1", "2", "3", "4", "5", "6", "7", "8", "9", "a", "b", "c", "d", "e", "f">>

RECURSIVE Digest(_, _)
Digest(data, h) ==
    IF data = <<>> THEN h ELSE Digest(Tail(data), (h * 31 + Head(data) + 1) % 256)

ComputeSHA256(data) ==
    LET h == Digest(data, 7)
    IN <<HexDigits[(h \div 16) + 1], HexDigits[(h % 16) + 1]>>

fileSize(data) == Len(data)

\* the manifest files the Packager left outside the repository; their size
\* and sha256 are those of ArchiveA
ArchiveA == <<1>>
ArchiveB == <<1, 2>>

Manifest(n, v, a, api) ==
    [Name |-> n, Version |-> v, Arch |-> a, OhosApi |-> api, Size |-> Len(ArchiveA),
     SHA256 |-> ComputeSHA256(ArchiveA), URL |-> <<>>, Depends |-> <<>>]

\* the files outside the repository
ExternalFiles ==
    (<<"a", ".", "p", "k", "g">> :> FileBytes(ArchiveA))
    @@ (<<"b", ".", "p", "k", "g">> :> FileBytes(ArchiveB))
    @@ (<<"a", ".", "t", "g", "z">> :> FileBytes(ArchiveA))
    @@ (<<"m", "1", ".", "j", "s", "o", "n">> :> FileManifest(Manifest(libfoo, v100, aarch64, api15)))
    @@ (<<"m", "2", ".", "j", "s", "o", "n">> :> FileManifest(Manifest(libfoo, v100, arm64, api15)))
    @@ (<<"m", "3", ".", "j", "s", "o", "n">> :> FileManifest(Manifest(libfoo, v100, mips, api15)))
    @@ (<<"b", "a", "d", ".", "j", "s", "o", "n">> :> CorruptFile)

\* the pkgFile arguments: archives, a wrong extension, a missing file, the
\* empty string, and an archive already deployed in the channel
PkgFileArgs ==
    { <<"a", ".", "p", "k", "g">>, <<"b", ".", "p", "k", "g">>, <<"a", ".", "t", "g", "z">>, <<"g", "o", "n", "e", ".", "p", "k", "g">>, <<>>,
      PkgsPath \o GenPkgFileName(libfoo, v100, aarch64, api15) }

\* the manifestFile arguments
ManifestFileArgs == { <<"m", "1", ".", "j", "s", "o", "n">>, <<"m", "2", ".", "j", "s", "o", "n">>, <<"m", "3", ".", "j", "s", "o", "n">>, <<"b", "a", "d", ".", "j", "s", "o", "n">>, <<"g", "o", "n", "e", ".", "j", "s", "o", "n">>, <<>> }

\* the failure of the operating system a call can meet
Faults == {"none", "mkdir", "copy", "stat", "write manifest", "write index"}

\* the file at a path, given the channel's pkgs directory
ReadFile(dir, path) ==
    IF HasPrefix(path, PkgsPath)
    THEN Lookup(dir, SubSeq(path, Len(PkgsPath) + 1, Len(path)), NoFile)
    ELSE Lookup(ExternalFiles, path, NoFile)

IsFileExists(dir, path) == ReadFile(dir, path).kind # "none"

IsPkgPath(dir, path) == HasSuffix(Base(path), extPkg) /\ IsFileExists(dir, path)

isValidPkg(dir, path) == IsPkgPath(dir, path)

ReadManifest(dir, path) ==
    LET f == ReadFile(dir, path)
    IN IF f.kind = "manifest" THEN [ok |-> TRUE, m |-> f.m] ELSE [ok |-> FALSE]

WriteManifest(dir, name, m) == Put(dir, name, FileManifest(m))

\* copyFile: the destination after a copy that succeeded; the destination
\* is truncated before the source is read
copyFile(dir, src, dstName) ==
    IF src = PkgsPath \o dstName
    THEN Put(dir, dstName, FileBytes(<<>>))
    ELSE Put(dir, dstName, ReadFile(dir, src))

\* the destinations a copy that failed can leave
copyFileFailed(dir, src, dstName) ==
    {dir} \cup { Put(dir, dstName, FileBytes(SubSeq(ReadFile(dir, src).data, 1, k))) :
                   k \in 0..Len(ReadFile(dir, src).data) }

\* byte order of the characters of file names
FileChars == <<"-", ".">> \o Tail(Ascii)
FileCharRank(c) == CHOOSE i \in 1..Len(FileChars) : FileChars[i] = c

RECURSIVE NameLess(_, _)
NameLess(a, b) ==
    IF b = <<>> THEN FALSE
    ELSE IF a = <<>> THEN TRUE
    ELSE IF Head(a) # Head(b) THEN FileCharRank(Head(a)) < FileCharRank(Head(b))
    ELSE NameLess(Tail(a), Tail(b))

\* the names of a directory in the lexical order of filepath.WalkDir
RECURSIVE WalkDir(_)
WalkDir(names) ==
    IF names = {} THEN <<>>
    ELSE LET first == CHOOSE n \in names : \A o \in names \ {n} : NameLess(n, o)
         IN <<first>> \o WalkDir(names \ {first})

JsonFiles(dir) == {n \in DOMAIN dir : HasSuffix(n, extJson)}

\* the index entry of the manifest file base
ProjectManifest(m, base) ==
    [Name |-> m.Name, Version |-> m.Version, Arch |-> m.Arch, OhosApi |-> m.OhosApi,
     URL |-> PkgsPath \o SubSeq(base, 1, Len(base) - Len(extJson)) \o extPkg,
     SHA256 |-> m.SHA256, Size |-> m.Size, Manifest |-> PkgsPath \o base,
     Depends |-> m.Depends]

\* a regeneration that empties index.json before it walks pkgs/
regenerateIndex_TruncateFirst(dir, idx, fault) ==
    LET walk == WalkDir(JsonFiles(dir))
    IN IF \E i \in DOMAIN walk : dir[walk[i]].kind # "manifest"
       THEN {[indexJson |-> CorruptFile, err |-> "WalkDir"]}
       ELSE IF fault = "write index"
       THEN {[indexJson |-> CorruptFile, err |-> "WriteIndex"]}
       ELSE {[indexJson |-> FileIndex(stable,
                               [i \in DOMAIN walk |->
                                   ProjectManifest(dir[walk[i]].m, walk[i])]),
              err |-> "none"]}

\* regenerateIndex: the index files it can leave and its error
regenerateIndex(dir, idx, fault) ==
    LET walk == WalkDir(JsonFiles(dir))
    IN IF \E i \in DOMAIN walk : dir[walk[i]].kind # "manifest"
       THEN {[indexJson |-> idx, err |-> "WalkDir"]}
       ELSE IF fault = "write index"
       THEN {[indexJson |-> idx, err |-> "WriteIndex"],
             [indexJson |-> CorruptFile, err |-> "WriteIndex"]}
       ELSE {[indexJson |-> FileIndex(stable,
                               [i \in DOMAIN walk |->
                                   ProjectManifest(dir[walk[i]].m, walk[i])]),
              err |-> "none"]}

\* a rewrite that keeps the size and the sha256 the manifest came with
RewriteManifest_Trusting(manifest, data, pkgBase) ==
    [manifest EXCEPT !.URL = PkgsPath \o pkgBase]

\* the manifest with size, sha256 and url of the deployed archive
RewriteManifest(manifest, data, pkgBase) ==
    [manifest EXCEPT !.Size = fileSize(data), !.SHA256 = ComputeSHA256(data),
                     !.URL = PkgsPath \o pkgBase]

DeployOutcome(dir, idx, err) == [pkgsDir |-> dir, indexJson |-> idx, err |-> err]

\* the steps of DeployPackage after the manifest was read and the package
\* validated
DeployFiles(pkgFile, manifest, fault) ==
    LET pkgBase == GenPkgFileName(manifest.Name, manifest.Version, manifest.Arch,
                                  manifest.OhosApi)
        manifestBase == GenPkgManifestName(manifest.Name, manifest.Version,
                                           manifest.Arch, manifest.OhosApi)
        copied == copyFile(pkgsDir, pkgFile, pkgBase)
        written == WriteManifest(copied, manifestBase,
                       RewriteManifest(manifest, copied[pkgBase].data, pkgBase))
    IN IF fault = "copy"
       THEN { DeployOutcome(d, indexJson, "CopyFile") :
                d \in copyFileFailed(pkgsDir, pkgFile, pkgBase) }
       ELSE IF fault = "stat"
       THEN { DeployOutcome(copied, indexJson, "Stat") }
       ELSE IF fault = "write manifest"
       THEN { DeployOutcome(copied, indexJson, "WriteManifest"),
              DeployOutcome(Put(copied, manifestBase, CorruptFile), indexJson,
                            "WriteManifest") }
       ELSE { DeployOutcome(written, r.indexJson, r.err) :
                r \in regenerateIndex(written, indexJson, fault) }

\* DeployPackage: the outcomes of one call
DeployPackage(pkgFile, manifestFile, fault) ==
    IF pkgFile = <<>> \/ manifestFile = <<>>
    THEN { DeployOutcome(pkgsDir, indexJson, "Required") }
    ELSE IF fault = "mkdir"
    THEN { DeployOutcome(pkgsDir, indexJson, "EnsureChannelDirs") }
    ELSE IF ~ReadManifest(pkgsDir, manifestFile).ok
    THEN { DeployOutcome(pkgsDir, indexJson, "ReadManifest") }
    ELSE IF ~isValidPkg(pkgsDir, pkgFile)
    THEN { DeployOutcome(pkgsDir, indexJson, "NotValidPkg") }
    ELSE DeployFiles(pkgFile, ReadManifest(pkgsDir, manifestFile).m, fault)

DeployError(kind) == IF kind = "none" THEN NoError ELSE [kind |-> kind]

\* what the log keeps of a call
Logged(pkgFile, manifestFile, err) ==
    IF err = "none"
    THEN [pkgFile |-> pkgFile, manifestFile |-> manifestFile, err |-> err]
    ELSE [pkgFile |-> <<>>, manifestFile |-> <<>>, err |-> err]

Deploy ==
    /\ dpc = "ready"
    /\ Len(dlog) < MaxDeploys
    /\ \E pkgFile \in PkgFileArgs, manifestFile \in ManifestFileArgs, fault \in Faults :
         \E out \in DeployPackage(pkgFile, manifestFile, fault) :
            /\ pkgsDir' = out.pkgsDir
            /\ indexJson' = out.indexJson
            /\ derr' = DeployError(out.err)
            /\ dlog' = Append(dlog, Logged(pkgFile, manifestFile, out.err))
    /\ UNCHANGED <<dpc, rvars, tvars, cvars, fvars, xvars>>

DeployInit ==
    /\ pkgsDir = EmptyMap /\ indexJson = NoFile /\ dpc = "ready" /\ derr = NoError
    /\ dlog = <<>>
    /\ ResolveIdle /\ TopoIdle /\ ClientIdle /\ FunIdle /\ RaceIdle /\ RegistryIdle

DeployNext == Deploy

SpecDeploy == DeployInit /\ [][DeployNext]_vars

-----------------------------------------------------------------------------
(* Properties of the deployer                                              *)

AllSucceeded == dpc = "ready" /\ \A i \in DOMAIN dlog : dlog[i].err = "none"

\* the manifest a successful call of the log was handed
Handed(call) == ExternalFiles[call.manifestFile].m

DeployedPkg(call) ==
    GenPkgFileName(Handed(call).Name, Handed(call).Version, Handed(call).Arch,
                   Handed(call).OhosApi)

DeployedManifest(call) ==
    GenPkgManifestName(Handed(call).Name, Handed(call).Version, Handed(call).Arch,
                       Handed(call).OhosApi)

\* C9: after successful Deploy calls on the channel, the manifest of every
\* deployed fingerprint has the sha256 and the size of its archive as it is
\* on disk, and index.json holds exactly one entry per .json file under
\* pkgs/, carrying the sha256 and the size of that manifest.
C9_ManifestsAndIndexMatchDisk ==
    (AllSucceeded /\ dlog # <<>>) =>
        /\ \A i \in DOMAIN dlog :
              /\ Lookup(pkgsDir, DeployedPkg(dlog[i]), NoFile).kind = "bytes"
              /\ Lookup(pkgsDir, DeployedManifest(dlog[i]), NoFile).kind = "manifest"
              /\ pkgsDir[DeployedManifest(dlog[i])].m.SHA256
                    = ComputeSHA256(pkgsDir[DeployedPkg(dlog[i])].data)
              /\ pkgsDir[DeployedManifest(dlog[i])].m.Size
                    = Len(pkgsDir[DeployedPkg(dlog[i])].data)
        /\ indexJson.kind = "index"
        /\ Len(indexJson.Packages) = Cardinality(JsonFiles(pkgsDir))
        /\ \A f \in JsonFiles(pkgsDir) :
              \E i \in DOMAIN indexJson.Packages :
                 /\ indexJson.Packages[i].Manifest = PkgsPath \o f
                 /\ indexJson.Packages[i].SHA256 = pkgsDir[f].m.SHA256
                 /\ indexJson.Packages[i].Size = pkgsDir[f].m.Size

\* C9 witness: two fingerprints are deployed and one of them was deployed
\* again with a different archive
C9_Witness ==
    /\ AllSucceeded /\ Len(dlog) = 3
    /\ Cardinality(JsonFiles(pkgsDir)) = 2
    /\ \E i, j \in DOMAIN dlog :
          /\ i < j
          /\ dlog[i].manifestFile = dlog[j].manifestFile
          /\ ReadFile(pkgsDir, dlog[i].pkgFile) # ReadFile(pkgsDir, dlog[j].pkgFile)
          /\ pkgsDir[DeployedPkg(dlog[j])] = ReadFile(pkgsDir, dlog[j].pkgFile)

\* C10: every manifest in pkgs/ and every entry of the index has an arch of
\* the canonical set {aarch64, arm, x86_64}, whatever manifest was handed
\* to Deploy.
C10_ArchCanonical ==
    /\ \A f \in DOMAIN pkgsDir :
          pkgsDir[f].kind = "manifest" => pkgsDir[f].m.Arch \in CanonicalArchs
    /\ indexJson.kind = "index" =>
          \A i \in DOMAIN indexJson.Packages :
             indexJson.Packages[i].Arch \in CanonicalArchs

-----------------------------------------------------------------------------
(* Client.download                                                         *)

\* strings.ToLower and strings.EqualFold on the letters of the alphabet
UpperCase == {Ascii[i] : i \in 12..37}
ToLowerChar(c) == IF c \in UpperCase THEN Ascii[CharRank(c) + 26] ELSE c
ToUpperChar(c) ==
    IF c \in {Ascii[i] : i \in 38..63} THEN Ascii[CharRank(c) - 26] ELSE c
ToLower(s) == [i \in DOMAIN s |-> ToLowerChar(s[i])]
ToUpper(s) == [i \in DOMAIN s |-> ToUpperChar(s[i])]
EqualFold(a, b) == ToLower(a) = ToLower(b)

\* the entry of the index for an archive of the channel, as regenerateIndex
\* projects it; the index may spell the sha256 in either case
RemoteEntry(n, v, a, api, data, deps) ==
    [ProjectManifest(
        [Manifest(n, v, a, api) EXCEPT !.Size = Len(data),
                                       !.SHA256 = ComputeSHA256(data),
                                       !.Depends = deps],
        GenPkgManifestName(n, v, a, api))
     EXCEPT !.URL = PkgsPath \o GenPkgFileName(n, v, a, api)]

UpperSha(e) == [e EXCEPT !.SHA256 = ToUpper(@)]

DownloadEntries ==
    { RemoteEntry(libfoo, v100, aarch64, api15, ArchiveA, <<>>),
      UpperSha(RemoteEntry(libfoo, v100, aarch64, api15, ArchiveA, <<>>)),
      RemoteEntry(libz, v100, aarch64, api15, ArchiveB, <<>>) }

\* what the cache can hold when download is called
Caches ==
    LET names == {Base(e.URL) : e \in DownloadEntries}
    IN UNION { [N -> {FileBytes(ArchiveA), FileBytes(ArchiveB)}] : N \in SUBSET names }

\* what the server can send for an archive
Served == {ArchiveA, ArchiveB}

DownloadFaults ==
    {"none", "open cached", "remove", "get", "create", "copy", "open fetched"}

\* a comparison of the digests that distinguishes upper and lower case
VerifyFileSHA256_CaseSensitive(c, name, expected) ==
    ComputeSHA256(c[name].data) = expected

\* common.VerifyFileSHA256 on a file of the cache that can be read
VerifyFileSHA256(c, name, expected) ==
    EqualFold(ComputeSHA256(c[name].data), expected)

Remove(c, name) == [x \in DOMAIN c \ {name} |-> c[x]]

DownloadReturn(path, version, err) == [path |-> path, version |-> version, err |-> err]
DownloadFailed(kind) == DownloadReturn(<<>>, <<>>, [kind |-> kind])

DownloadState(c, events, ret) == [cache |-> c, events |-> events, ret |-> ret]

\* the final verification of download and its return
downloadVerify(c, events, choice, fault) ==
    LET pkgPath == Base(choice.URL)
    IN IF fault = "open fetched" \/ pkgPath \notin DOMAIN c
       THEN DownloadState(c, Append(events, "verify failed"), DownloadFailed("Open"))
       ELSE IF ~VerifyFileSHA256(c, pkgPath, choice.SHA256)
       THEN DownloadState(c, Append(events, "verify mismatch"),
                          DownloadFailed("ChecksumMismatch"))
       ELSE DownloadState(c, Append(events, "verify ok"),
                          DownloadReturn(pkgPath, choice.Version, NoError))

\* common.DownloadToFile and what follows it in download
downloadFetch(c, events, choice, served, fault) ==
    LET pkgPath == Base(choice.URL)
    IN IF fault = "get"
       THEN {DownloadState(c, Append(events, "fetch failed"), DownloadFailed("Http"))}
       ELSE IF fault = "create"
       THEN {DownloadState(c, Append(events, "fetch"), DownloadFailed("Create"))}
       ELSE IF fault = "copy"
       THEN { DownloadState(Put(c, pkgPath, FileBytes(SubSeq(served, 1, k))),
                            Append(events, "fetch"), DownloadFailed("Copy")) :
                k \in 0..(Len(served) - 1) }
       ELSE {downloadVerify(Put(c, pkgPath, FileBytes(served)),
                            Append(events, "fetch"), choice, fault)}

\* Client.download: the outcomes of one call
download(c, choice, served, fault) ==
    LET pkgPath == Base(choice.URL)
    IN IF pkgPath \notin DOMAIN c
       THEN downloadFetch(c, <<>>, choice, served, fault)
       ELSE IF fault = "open cached"
       THEN {DownloadState(c, <<"verify failed">>, DownloadFailed("Open"))}
       ELSE IF VerifyFileSHA256(c, pkgPath, choice.SHA256)
       THEN {downloadVerify(c, <<"verify ok">>, choice, fault)}
       ELSE IF fault = "remove"
       THEN downloadFetch(c, <<"verify mismatch", "remove failed">>, choice, served,
                          fault)
       ELSE downloadFetch(Remove(c, pkgPath), <<"verify mismatch", "remove">>, choice,
                          served, fault)

Download ==
    /\ dlpc = "call"
    /\ \E served \in Served, fault \in DownloadFaults :
         \E out \in download(cache, dlEntry, served, fault) :
            /\ cache' = out.cache
            /\ dlEvents' = out.events
            /\ dlRet' = out.ret
    /\ dlpc' = "returned"
    /\ UNCHANGED <<dlEntry, ivars, rvars, tvars, dvars, fvars, xvars>>

DownloadInit ==
    /\ cache \in Caches
    /\ dlEntry \in DownloadEntries
    /\ dlEvents = <<>> /\ dlRet = <<>> /\ dlpc = "call"
    /\ InstallIdle
    /\ ResolveIdle /\ TopoIdle /\ DeployIdle /\ FunIdle /\ RaceIdle /\ RegistryIdle

DownloadNext == Download

SpecDownload == DownloadInit /\ [][DownloadNext]_vars

-----------------------------------------------------------------------------
(* Properties of download                                                  *)

Fetches(events) ==
    Cardinality({i \in DOMAIN events : events[i] \in {"fetch", "fetch failed"}})

\* the file of the entry is in that cache with the digest of the entry, the
\* case of the letters apart
CachedMatches(c, e) ==
    /\ Base(e.URL) \in DOMAIN c
    /\ ToLower(ComputeSHA256(c[Base(e.URL)].data)) = ToLower(e.SHA256)

-----------------------------------------------------------------------------
(* Package file names                                                      *)

\* the last position of c in s, 0 when absent
LastIndexOf(s, c) ==
    IF \E i \in 1..Len(s) : s[i] = c
    THEN CHOOSE i \in 1..Len(s) : s[i] = c /\ \A j \in (i + 1)..Len(s) : s[j] # c
    ELSE 0

\* filepath.Ext: the suffix of the last element from its last dot
Ext(path) ==
    LET b == Base(path)
        i == LastIndexOf(b, ".")
    IN IF i = 0 THEN <<>> ELSE SubSeq(b, i, Len(b))

TrimSuffix(s, suf) == IF HasSuffix(s, suf) THEN SubSeq(s, 1, Len(s) - Len(suf)) ELSE s
TrimPrefix(s, pre) == IF HasPrefix(s, pre) THEN SubSeq(s, Len(pre) + 1, Len(s)) ELSE s

\* a parser that takes the name up to the first hyphen
ParsePkgNameFromPath_NameFirst(path) ==
    LET tokens == Split(TrimSuffix(Base(path), Ext(path)), "-")
        tl == Len(tokens)
    IN IF tl < 4
       THEN [ok |-> FALSE, name |-> <<>>, version |-> <<>>, arch |-> <<>>, api |-> <<>>]
       ELSE [ok |-> TRUE, name |-> tokens[1], version |-> tokens[tl - 2],
             arch |-> tokens[tl - 1], api |-> TrimPrefix(tokens[tl], <<"a", "p", "i">>)]

\* common.ParsePkgNameFromPath: name, version, arch and api, or an error
ParsePkgNameFromPath(path) ==
    LET tokens == Split(TrimSuffix(Base(path), Ext(path)), "-")
        tl == Len(tokens)
    IN IF tl < 4
       THEN [ok |-> FALSE, name |-> <<>>, version |-> <<>>, arch |-> <<>>, api |-> <<>>]
       ELSE [ok |-> TRUE, name |-> Join(SubSeq(tokens, 1, tl - 3), <<"-">>),
             version |-> tokens[tl - 2], arch |-> tokens[tl - 1],
             api |-> TrimPrefix(tokens[tl], <<"a", "p", "i">>)]

\* the fingerprints handed to the file-name functions: names with a hyphen
\* and with a path separator, versions with two and three numbers, with a
\* pre-release and with build metadata
FpNames == { libfoo, <<"l", "i", "b", "f", "o", "o", "-", "c", "x", "x", "-", "d", "e", "v">>, <<"q", "t", "5", "-", "b", "a", "s", "e">>, <<"a", "/", "b">> }
FpVersions == { v100, v120, <<"1", ".", "0">>, <<"1", ".", "0", ".", "0", "-", "b", "e", "t", "a">>, <<"2", ".", "0", ".", "0", "-", "r", "c", ".", "1">>, <<"1", ".", "0", ".", "0", "+", "b", "1">> }
FpApis == { api14, api15, <<"9">> }
FpInputs ==
    { Fp(n, v, a, p) : n \in FpNames, v \in FpVersions, a \in CanonicalArchs,
                       p \in FpApis }

GenThenParse ==
    /\ fpc = "call"
    /\ fin \in FpInputs
    /\ fout' =
          [pkg |-> ParsePkgNameFromPath(
                       GenPkgFileName(fin.Name, fin.Version, fin.Arch, fin.OhosApi)),
           manifest |-> ParsePkgNameFromPath(
                       GenPkgManifestName(fin.Name, fin.Version, fin.Arch, fin.OhosApi))]
    /\ fpc' = "returned"
    /\ UNCHANGED <<fin, rvars, tvars, dvars, cvars, xvars>>

FingerprintInit ==
    /\ fin \in FpInputs /\ fout = <<>> /\ fpc = "call"
    /\ ResolveIdle /\ TopoIdle /\ DeployIdle /\ ClientIdle /\ RaceIdle /\ RegistryIdle

FingerprintNext == GenThenParse

SpecFingerprint == FingerprintInit /\ [][FingerprintNext]_vars

\* the tuple a parse returned
Parsed(r) == Fp(r.name, r.version, r.arch, r.api)

RoundTrips == fout.pkg.ok /\ fout.manifest.ok /\ Parsed(fout.pkg) = fin
                  /\ Parsed(fout.manifest) = fin

\* C18 as claimed: for a canonical arch, a decimal api, a version that
\* parses as a semantic version (pre-releases included) and a name that may
\* contain a hyphen, parsing the generated package or manifest file name
\* returns the fingerprint.
C18_RoundTrip ==
    (fpc = "returned" /\ fin \in FpInputs /\ "/" \notin Range(fin.Name)
        /\ ParseTolerant(fin.Version).ok)
        => RoundTrips

\* C18 as amended: the same for a version without a hyphen (no pre-release)
\* and a name without a path separator.
C18_RoundTripNoHyphenInVersion ==
    (fpc = "returned" /\ fin \in FpInputs /\ "/" \notin Range(fin.Name)
        /\ ParseTolerant(fin.Version).ok /\ "-" \notin Range(fin.Version))
        => RoundTrips

\* C18 witness: a name with two hyphens and a version with build metadata
\* came back
C18_Witness ==
    /\ fpc = "returned" /\ fin \in FpInputs /\ RoundTrips
    /\ Cardinality({i \in DOMAIN fin.Name : fin.Name[i] = "-"}) = 2
    /\ "+" \in Range(fin.Version)

-----------------------------------------------------------------------------
(* Dependency strings and constraint sets as inputs                        *)

DepNames == { libfoo, libz, <<"l", "i", "b", "f", "o", "o", "-", "c", "x", "x">>, <<"q", "t", "5", ".", "1", "2">> }
DepOps == { <<"=", "=">>, <<">", "=">>, <<"<", "=">>, <<">">>, <<"<">> }
DepVersions == { v100, <<"1", ".", "2">>, <<"v", "2", ".", "0", ".", "0">>, <<"1", ".", "0", ".", "0", "-", "b", "e", "t", "a">>, <<"1", ".", "0", ".", "0", "+", "b", "1">> }
DepForms == { "spaced", "compact", "bare", "operator only", "operator only compact",
              "version only" }

\* the dependency string of a form
DepString(d) ==
    CASE d.form = "spaced" -> d.name \o <<" ">> \o d.op \o <<" ">> \o d.ver
      [] d.form = "compact" -> d.name \o d.op \o d.ver
      [] d.form = "bare" -> d.name
      [] d.form = "operator only" -> d.name \o <<" ">> \o d.op \o <<" ">>
      [] d.form = "operator only compact" -> d.name \o d.op
      [] d.form = "version only" -> d.name \o <<" ">> \o d.ver

DepInputs ==
    [form : DepForms, name : DepNames, op : DepOps, ver : DepVersions]

ParseDepCall ==
    /\ fpc = "call"
    /\ fin \in DepInputs
    /\ fout' = ParseDep(DepString(fin))
    /\ fpc' = "returned"
    /\ UNCHANGED <<fin, rvars, tvars, dvars, cvars, xvars>>

ParseDepInit ==
    /\ fin \in DepInputs /\ fout = <<>> /\ fpc = "call"
    /\ ResolveIdle /\ TopoIdle /\ DeployIdle /\ ClientIdle /\ RaceIdle /\ RegistryIdle

ParseDepNext == ParseDepCall

SpecParseDep == ParseDepInit /\ [][ParseDepNext]_vars

\* C19: for a valid name, an operator of {==, >=, <=, >, <} and a version
\* that parses as a semantic version, ParseDep of `name op ver` and of
\* `nameopver` returns (name, {op, ver}); of the bare name (name, the empty
\* constraint); an operator without a version and a version without an
\* operator give an error and no constraint.
C19_ParseDepForms ==
    (fpc = "returned" /\ fin \in DepInputs /\ ParseTolerant(fin.ver).ok
        /\ Range(fin.name) \cap {">", "<", " ", "=", "&", "|", ";", ","} = {})
    => /\ fin.form \in {"spaced", "compact"} =>
            /\ fout.ok
            /\ fout.name = fin.name
            /\ fout.c = [Op |-> fin.op, Ver |-> fin.ver]
       /\ fin.form = "bare" =>
            fout.ok /\ fout.name = fin.name /\ fout.c = AnyConstraint
       /\ fin.form \in {"operator only", "operator only compact", "version only"} =>
            ~fout.ok /\ fout.c = AnyConstraint /\ fout.name = <<>>

\* C19 witness: the no-space form with a two-character operator and a
\* pre-release version was parsed
C19_Witness ==
    /\ fpc = "returned" /\ fin \in DepInputs
    /\ fin.form = "compact" /\ fin.op = <<"<", "=">> /\ "-" \in Range(fin.ver)
    /\ "-" \in Range(fin.name)
    /\ fout.ok /\ fout.c = [Op |-> fin.op, Ver |-> fin.ver]

MaxCons == 2      \* constraints of one set

SatVersions == { v100, v120, v200, <<"1", ".", "0">>, <<"1", ".", "0", ".", "0", "-", "b", "e", "t", "a">>, <<"1", ".", "x">>, <<>> }
SatOps == DepOps \cup { <<>>, <<"!", "=">>, <<"=">> }
SatConstraintVersions == { v100, v120, <<"x">> }
SatConstraints == [Op : SatOps, Ver : SatConstraintVersions] \cup {AnyConstraint}
SatInputs == [v : SatVersions, S : SeqsUpTo(SatConstraints, MaxCons)]

SatisfiesCall ==
    /\ fpc = "call"
    /\ fin \in SatInputs
    /\ fout' = SatisfiesConstraints(fin.v, fin.S)
    /\ fpc' = "returned"
    /\ UNCHANGED <<fin, rvars, tvars, dvars, cvars, xvars>>

SatisfiesInit ==
    /\ fin \in SatInputs /\ fout = <<>> /\ fpc = "call"
    /\ ResolveIdle /\ TopoIdle /\ DeployIdle /\ ClientIdle /\ RaceIdle /\ RegistryIdle

SatisfiesNext == SatisfiesCall

SpecSatisfies == SatisfiesInit /\ [][SatisfiesNext]_vars

\* `v op w` under semver precedence, v and w parsed
Holds(v, op, w) ==
    LET cmp == VCompare(v, w)
    IN CASE op = <<"=", "=">> -> cmp = 0
         [] op = <<">", "=">> -> cmp >= 0
         [] op = <<"<", "=">> -> cmp <= 0
         [] op = <<">">> -> cmp > 0
         [] op = <<"<">> -> cmp < 0
         [] OTHER -> FALSE

\* C20: SatisfiesConstraints(v, S) is true for the empty S whatever v is and
\* false for a non-empty S when v does not parse; for a v that parses it is
\* true exactly when every constraint of S either has the empty operator or
\* has a known operator and a version that parses and makes `v op w` true
\* under semver precedence, hence false when some constraint has an unknown
\* operator or a version that does not parse.
C20_SatisfiesIffAll ==
    (fpc = "returned" /\ fin \in SatInputs)
    => LET v == ParseTolerant(fin.v)
           S == fin.S
       IN /\ S = <<>> => fout = TRUE
          /\ (S # <<>> /\ ~v.ok) => fout = FALSE
          /\ v.ok =>
               (fout = TRUE <=>
                  \A i \in 1..Len(S) :
                     \/ S[i].Op = <<>>
                     \/ /\ S[i].Op \in DepOps
                        /\ ParseTolerant(S[i].Ver).ok
                        /\ Holds(v, S[i].Op, ParseTolerant(S[i].Ver)))
          /\ (\E i \in 1..Len(S) :
                 /\ S[i].Op # <<>>
                 /\ S[i].Op \notin DepOps \/ ~ParseTolerant(S[i].Ver).ok)
               => fout = FALSE

\* C20 witness: two constraints with different operators, both made true by
\* a two-number version
C20_Witness ==
    /\ fpc = "returned" /\ fin \in SatInputs /\ fout = TRUE
    /\ Len(fin.S) = 2 /\ fin.v = <<"1", ".", "0">>
    /\ fin.S[1].Op = <<">", "=">> /\ fin.S[2].Op = <<"<">>

-----------------------------------------------------------------------------
(* Client.install                                                          *)

MaxBatch == 2     \* requests of one install

\* common.MapArchStr: the canonical architecture of an alias, or an error
MapArchStr(a) ==
    LET l == ToLower(a)
    IN IF l \in {arm64, aarch64, <<"a", "r", "m", "v", "8", "a">>, <<"a", "r", "m", "6", "4", "v", "8", "a">>, <<"a", "r", "m", "6", "4", "-", "v", "8", "a">>}
       THEN [ok |-> TRUE, arch |-> aarch64]
       ELSE IF l \in {arm, <<"a", "r", "m", "e", "a", "b", "i", "-", "v", "7", "a">>, <<"a", "r", "m", "v", "7", "-", "a">>, <<"a", "r", "m", "v", "7", "a">>}
       THEN [ok |-> TRUE, arch |-> arm]
       ELSE IF l \in {x86_64, <<"a", "m", "d", "6", "4">>}
       THEN [ok |-> TRUE, arch |-> x86_64]
       ELSE [ok |-> FALSE, arch |-> <<>>]

\* common.DefaultArch: the architecture of the configuration
DefaultArch == aarch64

\* the local archives of the user
LocalFoo120 == <<"d", "l", "/", "l", "i", "b", "f", "o", "o", "-", "1", ".", "2", ".", "0", "-", "a", "a", "r", "c", "h", "6", "4", "-", "a", "p", "i", "1", "5", ".", "p", "k", "g">>
LocalFoo10 == <<"d", "l", "/", "l", "i", "b", "f", "o", "o", "-", "1", ".", "0", "-", "a", "a", "r", "c", "h", "6", "4", "-", "a", "p", "i", "1", "5", ".", "p", "k", "g">>
LocalZArm64 == <<"d", "l", "/", "l", "i", "b", "z", "-", "1", ".", "0", ".", "0", "-", "a", "r", "m", "6", "4", "-", "a", "p", "i", "1", "5", ".", "p", "k", "g">>
LocalZArm == <<"d", "l", "/", "l", "i", "b", "z", "-", "1", ".", "0", ".", "0", "-", "a", "r", "m", "-", "a", "p", "i", "1", "5", ".", "p", "k", "g">>
LocalZApi14 == <<"d", "l", "/", "l", "i", "b", "z", "-", "1", ".", "0", ".", "0", "-", "a", "a", "r", "c", "h", "6", "4", "-", "a", "p", "i", "1", "4", ".", "p", "k", "g">>
LocalX == <<"d", "l", "/", "x", ".", "p", "k", "g">>

\* the path of the install prefix, and an archive the user keeps under it
PrefixPath == <<"/", "o", "p", "t", "/", "a", "/">>
LocalZInPrefix == PrefixPath \o <<"s", "h", "a", "r", "e", "/">> \o GenPkgFileName(libz, v100, aarch64, api15)

LocalFiles ==
    (LocalFoo120 :> FileBytes(ArchiveA)) @@ (LocalFoo10 :> FileBytes(ArchiveA))
    @@ (LocalZArm64 :> FileBytes(ArchiveB)) @@ (LocalZArm :> FileBytes(ArchiveB))
    @@ (LocalZApi14 :> FileBytes(ArchiveB)) @@ (LocalX :> FileBytes(ArchiveB))
    @@ (LocalZInPrefix :> FileBytes(ArchiveB))

\* the files under the prefix that no package put there, by their path
\* below the prefix
LooseFiles == { TrimPrefix(f, PrefixPath) : f \in { g \in DOMAIN LocalFiles : HasPrefix(g, PrefixPath) } }

\* common.IsPkgPath for a path outside the repository
IsLocalPkgPath(path) == HasSuffix(Base(path), extPkg) /\ path \in DOMAIN LocalFiles

\* the requests of a batch: local archives, one of them absent, and names
InstallRequests ==
    DOMAIN LocalFiles \cup {libfoo, libz, <<"d", "l", "/", "l", "i", "b", "z", "-", "1", ".", "0", ".", "0", "-", "a", "a", "r", "c", "h", "6", "4", "-", "a", "p", "i", "1", "5", ".", "p", "k", "g">>}

InstallBatches == SeqsUpTo(InstallRequests, MaxBatch)

\* the indices the server can hold
InstallIndices ==
    { << RemoteEntry(libfoo, v100, aarch64, api15, ArchiveA, << libz >>),
         RemoteEntry(libfoo, v120, aarch64, api15, ArchiveA, <<>>),
         RemoteEntry(libz, v100, aarch64, api15, ArchiveB, <<>>),
         RemoteEntry(libz, v100, arm, api15, ArchiveB, <<>>) >>,
      << RemoteEntry(libfoo, v100, aarch64, api15, ArchiveA, <<>>),
         RemoteEntry(libz, v100, arm64, api15, ArchiveB, <<>>) >> }

\* the payload of an archive: its components and whether it has a postinst
\* script at its root
Untar(data) ==
    IF data = ArchiveA
    THEN [ok |-> TRUE, components |-> {"include", "lib"}, postinst |-> TRUE]
    ELSE IF data = ArchiveB
    THEN [ok |-> TRUE, components |-> {"lib", "share"}, postinst |-> FALSE]
    ELSE [ok |-> FALSE, components |-> {}, postinst |-> FALSE]

GetInstallComponents ==
    <<"include", "lib", "share", "bin", "sbin", "doc", "mkspecs", "openharmony",
      "plugins", "qml", "translations">>

\* what the user can type at the prompt: a line, or the end of the input
\* before a newline
Stdins ==
    { <<"y", "\n">>, <<"Y", "\n">>, <<" ", "y", " ", "\n">>, <<"n", "\n">>, <<"\n">>,
      <<"y", "e", "s", "\n">>, <<"y">>, <<>> }

\* bufio.Reader.ReadString('\n'): the input up to the first newline
ReadString(input) ==
    LET i == IndexOf(input, "\n")
    IN IF i = 0 THEN [ok |-> FALSE, line |-> input]
       ELSE [ok |-> TRUE, line |-> SubSeq(input, 1, i)]

\* a prompt that takes the empty line as a yes
ConfirmAction_DefaultYes(input) ==
    LET r == ReadString(input)
    IN IF ~r.ok THEN [err |-> TRUE, ok |-> FALSE]
       ELSE [err |-> FALSE,
             ok |-> ToLower(TrimSpace(r.line)) \in {<<"Y">>, <<"y">>, <<>>}]

\* common.ConfirmAction
ConfirmAction(input) ==
    LET r == ReadString(input)
    IN IF ~r.ok THEN [err |-> TRUE, ok |-> FALSE]
       ELSE [err |-> FALSE,
             ok |-> ToLower(TrimSpace(r.line)) \in {<<"Y">>, <<"y">>}]

InstallError(kind) == [kind |-> kind]
Event(ev, pkg) == [ev |-> ev, pkg |-> pkg]

ClassifyState(err, lastArch, n2p, pkgs) ==
    [err |-> err, lastArch |-> lastArch, name2pkgPath |-> n2p, pkgs |-> pkgs]

\* a check that lets every API level pass
ApiMatches_Any(api, sdk) == TRUE

\* line 731: the API level of the file name against the SDK's
ApiMatches(api, sdk) == api = sdk

\* lines 743-747: the comparison of the consistency check
ArchConsistent(a, lastArch) == a = lastArch

\* lines 715-750: the classification loop
RECURSIVE classify(_, _, _)
classify(reqs, api, st) ==
    IF reqs = <<>> THEN st
    ELSE LET r == Head(reqs)
             local == IsLocalPkgPath(r)
             p == ParsePkgNameFromPath(r)
             n2p == IF local /\ p.ok THEN Put(st.name2pkgPath, p.name, r)
                    ELSE st.name2pkgPath
             a == IF local THEN p.arch ELSE DefaultArch
             pkgName == IF local THEN p.name \o <<" ", "=", "=", " ">> \o p.version
                        ELSE r
         IN IF local /\ ~p.ok
            THEN ClassifyState(InstallError("InvalidPkgName"), st.lastArch, n2p, st.pkgs)
            ELSE IF local /\ ~ApiMatches(p.api, api)
            THEN ClassifyState(InstallError("ApiMismatch"), st.lastArch, n2p, st.pkgs)
            ELSE IF st.lastArch # <<>> /\ ~ArchConsistent(a, st.lastArch)
            THEN ClassifyState(InstallError("DifferentArchs"), st.lastArch, n2p, st.pkgs)
            ELSE classify(Tail(reqs), api,
                     ClassifyState(NoError, IF st.lastArch = <<>> THEN a ELSE st.lastArch,
                                   n2p, Append(st.pkgs, pkgName)))

InstallReturn(err) ==
    /\ ierr' = err
    /\ ipc' = "returned"

\* lines 694-750: SDK info, configuration, the classification of the requests
InstallStart ==
    /\ ipc = "call"
    /\ \E fault \in {"none", "sdk", "root url"} :
       \E st \in {classify(ireq, sdkApi, ClassifyState(NoError, <<>>, EmptyMap, <<>>))} :
          IF fault = "sdk"
          THEN /\ InstallReturn(InstallError("LoadSdkInfo"))
               /\ UNCHANGED <<requested, arch, name2pkgPath, ilog>>
          ELSE IF fault = "root url"
          THEN /\ InstallReturn(InstallError("NoRootURL"))
               /\ UNCHANGED <<requested, arch, name2pkgPath, ilog>>
          ELSE IF Len(ireq) = 0
          THEN /\ InstallReturn(InstallError("EmptyList"))
               /\ UNCHANGED <<requested, arch, name2pkgPath, ilog>>
          ELSE IF st.err # NoError
          THEN /\ InstallReturn(st.err)
               /\ UNCHANGED <<requested, arch, name2pkgPath, ilog>>
          ELSE /\ requested' = st.pkgs
               /\ arch' = st.lastArch
               /\ name2pkgPath' = st.name2pkgPath
               /\ ilog' = Append(ilog, Event("classified", <<>>))
               /\ ipc' = "resolve"
               /\ UNCHANGED ierr
    /\ UNCHANGED <<index, sdkApi, byName, constraints, queue, chosen, rpc, rerr, rret,
                   cache, dlEntry, dlEvents, dlRet, dlpc, ireq, noConfirm, stdin, prefix,
                   todo, cur, tvars, dvars, fvars, xvars>>

\* lines 1004-1014 and 1173-1192: ResolveDependencies loads the index from
\* the first URL that answers, then the SDK info
InstallLoadIndex ==
    /\ ipc = "resolve"
    /\ \E outcome \in {"first", "second", "none", "bad json", "sdk"} :
       \E idx \in InstallIndices :
          /\ ilog' = ilog \o
                 (IF outcome \in {"second", "none"}
                  THEN <<Event("fetch index", <<>>), Event("fetch index", <<>>)>>
                  ELSE <<Event("fetch index", <<>>)>>)
          /\ IF outcome \in {"first", "second"}
             THEN /\ index' = idx
                  /\ rpc' = "start"
                  /\ ipc' = "resolving"
                  /\ UNCHANGED ierr
             ELSE /\ InstallReturn(InstallError(
                        CASE outcome = "none" -> "FetchIndex"
                          [] outcome = "bad json" -> "ParseIndex"
                          [] outcome = "sdk" -> "LoadSdkInfo"))
                  /\ UNCHANGED <<index, rpc>>
    /\ UNCHANGED <<requested, arch, sdkApi, byName, constraints, queue, chosen, rerr,
                   rret, cache, dlEntry, dlEvents, dlRet, dlpc, ireq, noConfirm, stdin,
                   prefix, name2pkgPath, todo, cur, tvars, dvars, fvars, xvars>>

\* lines 754-757: ResolveDependencies returned an error
InstallResolveFailed ==
    /\ ipc = "resolving"
    /\ rpc = "error"
    /\ InstallReturn(rerr)
    /\ UNCHANGED <<rvars, cache, dlEntry, dlEvents, dlRet, dlpc, ireq, noConfirm, stdin,
                   prefix, name2pkgPath, todo, cur, ilog, tvars, dvars, fvars, xvars>>

\* lines 754-778: ResolveDependencies returned the plan; the confirmation
InstallConfirm ==
    /\ ipc = "resolving"
    /\ rpc = "done"
    /\ \E answer \in {ConfirmAction(stdin)} :
          IF ~noConfirm /\ answer.err
          THEN /\ InstallReturn(InstallError("Confirm"))
               /\ ilog' = Append(ilog, Event("prompt", <<>>))
               /\ UNCHANGED todo
          ELSE IF ~noConfirm /\ ~answer.ok
          THEN /\ InstallReturn(NoError)
               /\ ilog' = ilog \o <<Event("prompt", <<>>), Event("abort", <<>>)>>
               /\ UNCHANGED todo
          ELSE /\ todo' = DOMAIN rret
               /\ ilog' = IF noConfirm THEN ilog ELSE Append(ilog, Event("prompt", <<>>))
               /\ ipc' = "loop"
               /\ UNCHANGED ierr
    /\ UNCHANGED <<rvars, cache, dlEntry, dlEvents, dlRet, dlpc, ireq, noConfirm, stdin,
                   prefix, name2pkgPath, cur, tvars, dvars, fvars, xvars>>

\* the download faults an install meets
InstallDownloadFaults == {"none", "get"}

\* lines 787-819: the next package of the plan, in map order, and its archive
InstallFetch ==
    /\ ipc = "loop"
    /\ todo # {}
    /\ \E name \in todo :
       \E entry \in {rret[name]} :
          /\ todo' = todo \ {name}
          /\ IF name \notin DOMAIN name2pkgPath
             THEN \E served \in Served, fault \in InstallDownloadFaults :
                  \E out \in download(cache, entry, served, fault) :
                     /\ cache' = out.cache
                     /\ ilog' = Append(ilog,
                                   [ev |-> "download", pkg |-> name,
                                    events |-> out.events])
                     /\ IF out.ret.err # NoError
                        THEN /\ InstallReturn(out.ret.err)
                             /\ UNCHANGED <<name2pkgPath, cur>>
                        ELSE /\ name2pkgPath' = Put(name2pkgPath, name, out.ret.path)
                             /\ cur' = [name |-> name, entry |-> entry,
                                        path |-> out.ret.path,
                                        version |-> out.ret.version,
                                        data |-> out.cache[out.ret.path].data]
                             /\ ipc' = "extract"
                             /\ UNCHANGED ierr
             ELSE /\ cur' = [name |-> name, entry |-> entry,
                             path |-> name2pkgPath[name], version |-> entry.Version,
                             data |-> LocalFiles[name2pkgPath[name]].data]
                  /\ ilog' = Append(ilog, Event("use local", name))
                  /\ ipc' = "extract"
                  /\ UNCHANGED <<cache, name2pkgPath, ierr>>
    /\ UNCHANGED <<rvars, dlEntry, dlEvents, dlRet, dlpc, ireq, noConfirm, stdin, prefix,
                   tvars, dvars, fvars, xvars>>

\* a loop body that runs the script before the metadata is patched
StepAfter_HookFirst(step) ==
    CASE step = "extract" -> "merge"
      [] step = "merge" -> "hook"
      [] step = "hook" -> "patch"
      [] step = "patch" -> "cleanup"
      [] step = "cleanup" -> "loop"

\* lines 821-876: the order of the statements of the loop body
StepAfter(step) ==
    CASE step = "extract" -> "merge"
      [] step = "merge" -> "patch"
      [] step = "patch" -> "hook"
      [] step = "hook" -> "cleanup"
      [] step = "cleanup" -> "loop"

\* line 661: prefix/.<name>-<version>.tmp
TmpDir(name, version) == <<".">> \o name \o <<"-">> \o version \o <<".", "t", "m", "p">>

Without(m, k) == [x \in DOMAIN m \ {k} |-> m[x]]

extTarGz == <<".", "t", "a", "r", ".", "g", "z">>

\* ExtractTarGz: the path of the temporary copy, next to the archive
TarGzPath(archive) == TrimSuffix(archive, Ext(archive)) \o extTarGz

\* the temporary copy on disk: a loose file of the prefix when the archive
\* lies under the prefix, a file of the cache when the archive is there
WithCopy(pre, ch, archive, content) ==
    IF HasPrefix(archive, PrefixPath)
    THEN [prefix |-> [pre EXCEPT !.files = @ \cup {TrimPrefix(TarGzPath(archive), PrefixPath)}],
          cache |-> ch]
    ELSE IF archive \in DOMAIN ch
    THEN [prefix |-> pre, cache |-> Put(ch, TarGzPath(archive), content)]
    ELSE [prefix |-> pre, cache |-> ch]

\* a tmp directory that holds a part of the tree
PartialPayload == [ok |-> FALSE, components |-> {}, postinst |-> FALSE]

\* an extraction that unpacks into the component directories of the prefix
ExtractFailed_IntoPrefix(pre, ch, name, version, archive, fault) ==
    { [prefix |-> [pre EXCEPT !.merged = @ \cup {<<"lib", name>>}], cache |-> ch] }

\* what an ExtractTarGz that returns an error leaves: when copyFile failed,
\* the copy or a part of it; when Unarchive failed, a part of the tree in the
\* tmp directory, the copy being removed
ExtractFailed(pre, ch, name, version, archive, fault) ==
    LET tmpDir == TmpDir(name, version)
        cleared == [pre EXCEPT !.tmp = Without(@, tmpDir)]
        data == IF archive \in DOMAIN ch THEN ch[archive].data ELSE LocalFiles[archive].data
    IN IF fault = "copy"
       THEN { [prefix |-> cleared, cache |-> ch] }
            \cup { WithCopy(cleared, ch, archive, FileBytes(SubSeq(data, 1, k))) :
                     k \in 0..Len(data) }
       ELSE { [prefix |-> cleared, cache |-> ch],
              [prefix |-> [pre EXCEPT !.tmp = Put(@, tmpDir, PartialPayload)],
               cache |-> ch] }

\* what a process that is terminated inside extract, before the first
\* component is copied, leaves
ExtractKilled(pre, ch, name, version, archive) ==
    LET tmpDir == TmpDir(name, version)
        data == IF archive \in DOMAIN ch THEN ch[archive].data ELSE LocalFiles[archive].data
        stopped == ExtractFailed(pre, ch, name, version, archive, "copy")
                   \cup ExtractFailed(pre, ch, name, version, archive, "unarchive")
        unpacked == IF Untar(data).ok
                    THEN { [prefix |-> [pre EXCEPT !.tmp = Put(@, tmpDir, Untar(data))],
                            cache |-> ch] }
                    ELSE {}
    IN {[prefix |-> pre, cache |-> ch]} \cup stopped \cup unpacked
       \cup { WithCopy(o.prefix, o.cache, archive, FileBytes(data)) :
                o \in stopped \cup unpacked }

\* lines 659-670: the prefix is created, a previous tmp is removed, the
\* archive is unpacked into the tmp directory
InstallExtract ==
    /\ ipc = "extract"
    /\ \E fault \in {"none", "mkdir", "copy", "unarchive"} :
       \E tmpDir \in {TmpDir(cur.name, cur.version)} :
       \E payload \in {Untar(cur.data)} :
          IF fault = "mkdir"
          THEN /\ InstallReturn(InstallError("MkdirAll"))
               /\ UNCHANGED <<prefix, cache, ilog>>
          ELSE IF fault # "none" \/ ~payload.ok
          THEN /\ InstallReturn(InstallError("ExtractTarGz"))
               /\ \E out \in ExtractFailed(prefix, cache, cur.name, cur.version,
                                           cur.path, fault) :
                     prefix' = out.prefix /\ cache' = out.cache
               /\ UNCHANGED ilog
          ELSE /\ prefix' = [prefix EXCEPT !.tmp = Put(@, tmpDir, payload)]
               /\ ilog' = Append(ilog, Event("extract", cur.name))
               /\ ipc' = StepAfter("extract")
               /\ UNCHANGED <<ierr, cache>>
    /\ UNCHANGED <<rvars, dlEntry, dlEvents, dlRet, dlpc, ireq, noConfirm, stdin,
                   name2pkgPath, todo, cur, tvars, dvars, fvars, xvars>>

\* the process is terminated inside extract or right after the unpacking,
\* before the first component is copied
InstallCrash ==
    /\ ipc \in {"extract", "merge"}
    /\ \E out \in (IF ipc = "extract"
                   THEN ExtractKilled(prefix, cache, cur.name, cur.version, cur.path)
                   ELSE {[prefix |-> prefix, cache |-> cache]}) :
          prefix' = out.prefix /\ cache' = out.cache
    /\ ipc' = "crashed"
    /\ ilog' = Append(ilog, Event("crash", cur.name))
    /\ UNCHANGED <<rvars, dlEntry, dlEvents, dlRet, dlpc, ireq, noConfirm, stdin,
                   name2pkgPath, todo, cur, ierr, tvars, dvars, fvars, xvars>>

\* the components of the list before position k that the tmp directory holds
Merged(payload, k) ==
    { GetInstallComponents[i] : i \in { j \in 1..(k - 1) :
                                          GetInstallComponents[j] \in payload.components } }

\* lines 671-686: the components of the tmp directory are copied into the
\* prefix in list order; a copy that fails ends the call
InstallMerge ==
    /\ ipc = "merge"
    /\ \E payload \in {prefix.tmp[TmpDir(cur.name, cur.version)]} :
       \E failAt \in {0} \cup { i \in DOMAIN GetInstallComponents :
                                  GetInstallComponents[i] \in payload.components } :
       \E k \in {IF failAt = 0 THEN Len(GetInstallComponents) + 1 ELSE failAt} :
          /\ prefix' = [prefix EXCEPT
                          !.merged = @ \cup { <<c, cur.name>> : c \in Merged(payload, k) }]
          /\ ilog' = ilog \o [i \in 1..Cardinality(Merged(payload, k)) |->
                                 Event("merge", cur.name)]
          /\ IF failAt # 0
             THEN InstallReturn(InstallError("CopyDirContents"))
             ELSE ipc' = StepAfter("merge") /\ UNCHANGED ierr
    /\ UNCHANGED <<rvars, cache, dlEntry, dlEvents, dlRet, dlpc, ireq, noConfirm, stdin,
                   name2pkgPath, todo, cur, tvars, dvars, fvars, xvars>>

\* the packages with files under the lib directory of the prefix
LibOwners(pre) == { m[2] : m \in { x \in pre.merged : x[1] = "lib" } }

\* lines 836-852: the value patchLibFilesForCurrentInstallation returns is
\* not read
PatchOutcome(fault) == "continue"

\* lines 828-852: the library metadata under the prefix is patched
InstallPatch ==
    /\ ipc = "patch"
    /\ \E fault \in {"none", "patch", "read"} :
          IF ~MapArchStr(cur.entry.Arch).ok
          THEN /\ InstallReturn(InstallError("UnsupportedArch"))
               /\ UNCHANGED <<prefix, ilog>>
          ELSE IF fault = "patch" /\ PatchOutcome(fault) = "return"
          THEN /\ InstallReturn(InstallError("PatchLibFiles"))
               /\ ilog' = Append(ilog, Event("patch failed", cur.name))
               /\ UNCHANGED prefix
          ELSE IF fault = "read"
          THEN /\ InstallReturn(InstallError("IsArchDepLibInArchIndepDir"))
               /\ prefix' = [prefix EXCEPT !.patched = LibOwners(prefix)]
               /\ ilog' = Append(ilog, Event("patch", cur.name))
          ELSE /\ prefix' = [prefix EXCEPT
                               !.patched = IF fault = "patch" THEN @
                                           ELSE LibOwners(prefix)]
               /\ ilog' = Append(ilog, Event(IF fault = "patch" THEN "patch failed"
                                             ELSE "patch", cur.name))
               /\ ipc' = StepAfter("patch")
               /\ UNCHANGED ierr
    /\ UNCHANGED <<rvars, cache, dlEntry, dlEvents, dlRet, dlpc, ireq, noConfirm, stdin,
                   name2pkgPath, todo, cur, tvars, dvars, fvars, xvars>>

\* common.GetPostInstScriptPath: the postinst script at the root of a
\* directory, if there is one
GetPostInstScriptPath(pre, tmpDir) == pre.tmp[tmpDir].postinst

\* lines 854-871: the post-install script of the tmp directory is run
InstallHook ==
    /\ ipc = "hook"
    /\ \E tmpDir \in {TmpDir(cur.name, cur.version)} :
       \E exit \in {"ok", "failed"} :
          IF tmpDir \notin DOMAIN prefix.tmp
          THEN /\ exit = "ok"
               /\ ipc' = "loop"
               /\ UNCHANGED <<prefix, ilog, ierr>>
          ELSE IF ~GetPostInstScriptPath(prefix, tmpDir)
          THEN /\ exit = "ok"
               /\ ipc' = StepAfter("hook")
               /\ UNCHANGED <<prefix, ilog, ierr>>
          ELSE IF exit = "failed"
          THEN /\ InstallReturn(InstallError("ExecuteShell"))
               /\ ilog' = Append(ilog, Event("hook", cur.name))
               /\ UNCHANGED prefix
          ELSE /\ prefix' = [prefix EXCEPT !.hooks = Append(@, cur.name)]
               /\ ilog' = Append(ilog, Event("hook", cur.name))
               /\ ipc' = StepAfter("hook")
               /\ UNCHANGED ierr
    /\ UNCHANGED <<rvars, cache, dlEntry, dlEvents, dlRet, dlpc, ireq, noConfirm, stdin,
                   name2pkgPath, todo, cur, tvars, dvars, fvars, xvars>>

\* lines 872-875: the tmp directory is removed, errors ignored
InstallCleanup ==
    /\ ipc = "cleanup"
    /\ \E removed \in BOOLEAN :
          /\ prefix' = IF removed
                       THEN [prefix EXCEPT
                               !.tmp = Without(@, TmpDir(cur.name, cur.version))]
                       ELSE prefix
          /\ ilog' = Append(ilog, Event(IF removed THEN "rmtmp" ELSE "rmtmp failed",
                                        cur.name))
    /\ ipc' = StepAfter("cleanup")
    /\ UNCHANGED <<rvars, cache, dlEntry, dlEvents, dlRet, dlpc, ireq, noConfirm, stdin,
                   name2pkgPath, todo, cur, ierr, tvars, dvars, fvars, xvars>>

\* lines 886-888: every package of the plan is installed
InstallFinish ==
    /\ ipc = "loop"
    /\ todo = {}
    /\ InstallReturn(NoError)
    /\ UNCHANGED <<rvars, cache, dlEntry, dlEvents, dlRet, dlpc, ireq, noConfirm, stdin,
                   prefix, name2pkgPath, todo, cur, ilog, tvars, dvars, fvars, xvars>>

\* a prefix left by an install that failed while running a hook
StalePrefix ==
    [tmp |-> (TmpDir(libfoo, v100) :> Untar(ArchiveA)),
     merged |-> {<<"include", libfoo>>, <<"lib", libfoo>>},
     patched |-> {libfoo}, hooks |-> <<>>, files |-> LooseFiles]

InstallInit ==
    /\ ireq \in InstallBatches
    /\ noConfirm \in BOOLEAN
    /\ stdin \in (IF noConfirm THEN {<<>>} ELSE Stdins)
    /\ prefix \in {[tmp |-> EmptyMap, merged |-> {}, patched |-> {}, hooks |-> <<>>,
                    files |-> LooseFiles],
                   StalePrefix}
    /\ cache \in {EmptyMap,
                  (GenPkgFileName(libz, v100, aarch64, api15) :> FileBytes(ArchiveA))}
    /\ name2pkgPath = EmptyMap /\ todo = {} /\ cur = <<>> /\ ilog = <<>>
    /\ ierr = NoError /\ ipc = "call"
    /\ dlEntry = <<>> /\ dlEvents = <<>> /\ dlRet = <<>> /\ dlpc = "idle"
    /\ ResolveIdle /\ TopoIdle /\ DeployIdle /\ FunIdle /\ RaceIdle /\ RegistryIdle

InstallNext ==
    \/ InstallStart \/ InstallLoadIndex
    \/ ResolveStart \/ ResolveStep \/ ResolveReturn
    \/ InstallResolveFailed \/ InstallConfirm
    \/ InstallFetch \/ InstallExtract \/ InstallCrash \/ InstallMerge \/ InstallPatch
    \/ InstallHook \/ InstallCleanup \/ InstallFinish

SpecInstall == InstallInit /\ [][InstallNext]_vars

-----------------------------------------------------------------------------
(* Properties of install                                                   *)

\* the position of a step in the loop body
Rank(ev) ==
    CASE ev \in {"download", "use local"} -> 0
      [] ev = "extract" -> 1
      [] ev = "merge" -> 2
      [] ev \in {"patch", "patch failed"} -> 3
      [] ev = "hook" -> 4
      [] ev \in {"rmtmp", "rmtmp failed"} -> 5
      [] OTHER -> 0 - 1

\* the positions of ilog that hold a step of package n
StepsOf(n) == { i \in DOMAIN ilog : ilog[i].pkg = n /\ Rank(ilog[i].ev) >= 0 }

\* C12: for each package the steps are logged in the order archive,
\* extraction, merges, patching, hook, removal of the tmp directory, each at
\* most once but the merges; a hook is preceded by the patching and by every
\* merge of the package, a removal by the hook when the archive has one, and
\* the tmp directory exists from the extraction until the removal step.
C12_StepOrder ==
    /\ \A n \in {libfoo, libz} :
         /\ \A i, j \in StepsOf(n) :
               i < j => /\ Rank(ilog[i].ev) <= Rank(ilog[j].ev)
                        /\ Rank(ilog[i].ev) = Rank(ilog[j].ev) => ilog[i].ev = "merge"
         /\ \A j \in StepsOf(n) :
               /\ Rank(ilog[j].ev) >= 2 =>
                     \E i \in StepsOf(n) : i < j /\ ilog[i].ev = "extract"
               /\ Rank(ilog[j].ev) >= 4 =>
                     \E i \in StepsOf(n) : i < j /\ Rank(ilog[i].ev) = 3
    /\ ipc \in {"merge", "patch", "hook", "cleanup"} =>
         /\ TmpDir(cur.name, cur.version) \in DOMAIN prefix.tmp
         /\ (ipc = "cleanup" /\ prefix.tmp[TmpDir(cur.name, cur.version)].postinst) =>
               ilog[Len(ilog)] = Event("hook", cur.name)

\* C12 witness: two packages were installed, the one with a postinst script
\* last, and its tmp directory is gone
C12_Witness ==
    /\ ipc = "returned" /\ ierr = NoError
    /\ Cardinality({ i \in DOMAIN ilog : ilog[i].ev = "extract" }) = 2
    /\ Len(ilog) >= 2
    /\ ilog[Len(ilog)] = Event("rmtmp", libfoo)
    /\ ilog[Len(ilog) - 1] = Event("hook", libfoo)
    /\ prefix.tmp = EmptyMap
    /\ prefix.hooks = <<libfoo>>

\* a step that failed: a download that ended with an error, a patch that
\* returned an error
FailedStep(e) ==
    \/ e.ev = "patch failed"
    \/ /\ e.ev = "download"
       /\ e.events # <<>>
       /\ e.events[Len(e.events)] \in {"fetch failed", "verify failed", "verify mismatch"}

\* C13: a step of install that fails is the last thing the call does, and
\* the call returns an error.
C13_NoSwallowedError ==
    \A i \in DOMAIN ilog :
       FailedStep(ilog[i]) => i = Len(ilog) /\ ipc = "returned" /\ ierr # NoError

\* the prompt was shown
Prompted == \E i \in DOMAIN ilog : ilog[i].ev = "prompt"

\* the answer of the user: the input without the newline that ends it
Answer == TrimSuffix(stdin, <<"\n">>)

\* nothing was downloaded, extracted, merged, patched or run
NoSteps == \A i \in DOMAIN ilog : Rank(ilog[i].ev) < 0

\* C14 as claimed: with noConfirm false and an answer other than y or Y the
\* call returns without error and has done no step.
C14_OtherAnswerAborts ==
    (ipc = "returned" /\ ~noConfirm /\ Prompted /\ Answer \notin {<<"y">>, <<"Y">>})
        => ierr = NoError /\ NoSteps

\* C14 as amended: with noConfirm false, a line that is not y or Y once
\* blanks around it are dropped makes the call return without error, an input
\* that ends before a newline makes it return an error, and in both cases no
\* step was done; no step before the loop over the plan changes the prefix
\* or the cache.
C14_OtherLineAborts ==
    /\ [](  (ipc = "returned" /\ ~noConfirm /\ Prompted)
            => /\ (/\ "\n" \in Range(stdin)
                   /\ ToLower(TrimSpace(Answer)) # <<"y">>)
                  => ierr = NoError /\ NoSteps
               /\ "\n" \notin Range(stdin) => ierr = InstallError("Confirm") /\ NoSteps)
    /\ [][(ipc \in {"call", "resolve", "resolving"} => UNCHANGED <<prefix, cache>>)]_vars

\* C14 witness: the user typed yes and the call returned with nothing done
C14_Witness ==
    /\ ipc = "returned" /\ ~noConfirm /\ Prompted /\ ierr = NoError
    /\ stdin = <<"y", "e", "s", "\n">>
    /\ NoSteps /\ prefix = StalePrefix /\ cache # EmptyMap
    /\ DOMAIN rret = {libfoo, libz}

\* the architecture a request targets
Target(r) ==
    IF IsLocalPkgPath(r) THEN MapArchStr(ParsePkgNameFromPath(r).arch).arch
    ELSE MapArchStr(DefaultArch).arch

MixedBatch == \E i, j \in DOMAIN ireq : Target(ireq[i]) # Target(ireq[j])

\* C15: the call returns an error before resolving when the requests target
\* different architectures, and the different-architectures error only then.
C15_RejectedIffMixed ==
    ipc # "call"
    => /\ MixedBatch => ipc = "returned" /\ ierr # NoError /\ ilog = <<>>
       /\ ierr = InstallError("DifferentArchs") => MixedBatch

\* the requests that are local archives, with the fingerprint of their name
LocalRequests == { i \in DOMAIN ireq : IsLocalPkgPath(ireq[i]) }
FpOf(i) == ParsePkgNameFromPath(ireq[i])

ApiMismatched == \E i \in LocalRequests : FpOf(i).ok /\ FpOf(i).api # sdkApi

\* C16 as claimed: with a local archive whose API level differs from the
\* SDK's the call fails with the API-mismatch error, nothing fetched.
C16_ApiMismatchError ==
    (ipc # "call" /\ ApiMismatched /\ ierr.kind \notin {"LoadSdkInfo", "NoRootURL"})
        => ipc = "returned" /\ ierr = InstallError("ApiMismatch") /\ ilog = <<>>

\* the first request the classification rejects is one with another API
FirstRejectedIsApi ==
    \E k \in LocalRequests :
       /\ FpOf(k).ok /\ FpOf(k).api # sdkApi
       /\ \A j \in 1..(k - 1) :
             /\ j \in LocalRequests => FpOf(j).ok /\ FpOf(j).api = sdkApi
             /\ (IF j \in LocalRequests THEN FpOf(j).arch ELSE DefaultArch)
                   = (IF 1 \in LocalRequests THEN FpOf(1).arch ELSE DefaultArch)

\* C16 as amended: with such a local archive the call fails before the index
\* is fetched, nothing resolved, downloaded, extracted or written; the error
\* is the API-mismatch error when no earlier request of the batch is
\* rejected, else the error of that request.
C16_FailsBeforeIndex ==
    /\ []( (ipc # "call" /\ ApiMismatched)
           => /\ ipc = "returned" /\ ierr # NoError /\ ilog = <<>>
              /\ rpc = "idle" /\ index = <<>>
              /\ ierr.kind \in {"LoadSdkInfo", "NoRootURL", "InvalidPkgName",
                                "DifferentArchs", "ApiMismatch"}
              /\ (FirstRejectedIsApi /\ ierr.kind \notin {"LoadSdkInfo", "NoRootURL"})
                    => ierr = InstallError("ApiMismatch")
              /\ (~FirstRejectedIsApi /\ ierr.kind \notin {"LoadSdkInfo", "NoRootURL"})
                    => ierr.kind \in {"InvalidPkgName", "DifferentArchs"})
    /\ [][(ipc = "call" => UNCHANGED <<prefix, cache>>)]_vars

\* C16 witness: the second request has another API level and is the one
\* that is rejected
C16_Witness ==
    /\ ipc = "returned" /\ ierr = InstallError("ApiMismatch") /\ ilog = <<>>
    /\ Len(ireq) = 2 /\ ireq[1] = LocalZArm /\ ireq[2] = LocalZApi14

\* the local requests past resolution: name, chosen entry, file
Pinned(i) == rret[FpOf(i).name]

-----------------------------------------------------------------------------
(* The work queue and the closure of the plan                              *)

\* the dependency names an entry declares
DependNames(e) == { ParseDep(e.Depends[i]).name : i \in DOMAIN e.Depends }

\* C25: the queue never holds a name twice nor a name already chosen, every
\* name queued or chosen has a constraint list, a step queues only names
\* that had none, and every iteration either chooses the name it took from
\* the queue or ends the call with an error; so the loop runs at most once
\* per distinct name, also on an index whose packages depend on each other.
C25_QueuedOnce ==
    /\ [](rpc \in {"loop", "done", "error"} =>
            /\ \A i, j \in DOMAIN queue : queue[i] = queue[j] => i = j
            /\ Range(queue) \cap DOMAIN chosen = {}
            /\ Range(queue) \cup DOMAIN chosen \subseteq DOMAIN constraints)
    /\ [][(rpc = "loop" /\ queue # <<>> /\ queue' # queue) =>
            /\ Range(queue') \ Range(queue) \subseteq
                   DOMAIN constraints' \ DOMAIN constraints
            /\ Head(queue) \notin Range(queue')
            /\ \/ rpc' = "error" /\ chosen' = chosen
               \/ /\ rpc' = "loop"
                  /\ DOMAIN chosen' = DOMAIN chosen \cup {Head(queue)}
                  /\ Head(queue) \notin DOMAIN chosen]_vars

\* C25 witness: two packages that depend on each other were both chosen and
\* the call returned
C25_Witness ==
    /\ rpc = "done" /\ DOMAIN rret = {libfoo, libz}
    /\ libz \in DependNames(rret[libfoo]) /\ libfoo \in DependNames(rret[libz])
    /\ queue = <<>>

\* C28: a returned plan holds every requested name and, for every entry of
\* it, every dependency name the entry declares.
C28_PlanClosed ==
    rpc = "done"
    => /\ ReqNames \subseteq DOMAIN rret
       /\ \A n \in DOMAIN rret : DependNames(rret[n]) \subseteq DOMAIN rret

\* C28 witness: only libfoo was requested and the plan also holds libz, which
\* it declares
C28_Witness ==
    /\ rpc = "done" /\ ReqNames = {libfoo}
    /\ DOMAIN rret = {libfoo, libz}
    /\ DependNames(rret[libz]) = {}

-----------------------------------------------------------------------------
(* The cycle search after Kahn's loop                                      *)

\* Kahn's loop has ended with fewer names than the input holds
KahnShort == tpc = "kahn" /\ tqueue = <<>> /\ Len(result) # Len(packages)

\* C29: when Kahn's loop ends with fewer names than the input holds, every
\* package left with a non-zero in-degree has a dependency among the packages
\* left and findCycle returns a non-empty path whatever order its maps are
\* ranged in; the error without a path is never returned.
C29_CycleAlwaysFound ==
    /\ KahnShort =>
         /\ Remaining # {}
         /\ \A n \in Remaining : Range(graph[n]) \cap Remaining # {}
         /\ \A order \in Perms(Remaining) : Len(findCycle(order)) >= 2
    /\ tpc = "error" => terr.kind # "CycleUndetermined"
    /\ (tpc = "error" /\ terr.kind = "CircularDependency") => Len(cycle) >= 2

\* C29 witness: one package was emitted, the two left depend on each other
\* and the path through them was returned
C29_Witness ==
    /\ tpc = "error" /\ terr.kind = "CircularDependency"
    /\ Len(result) = 1 /\ Cardinality(Remaining) = 2
    /\ Len(cycle) = 3 /\ cycle[1] = cycle[3] /\ cycle[1] # cycle[2]

-----------------------------------------------------------------------------
(* What a failed deploy leaves                                             *)

\* the errors of the steps before index.json is written
BeforeIndexWrite ==
    {"Required", "EnsureChannelDirs", "ReadManifest", "NotValidPkg", "CopyFile", "Stat",
     "WriteManifest", "WalkDir"}

\* C30: a Deploy call that returns an error of a step before the index is
\* written leaves index.json as it was, and one that fails on its arguments,
\* on reading the manifest or on validating the package file leaves pkgs/
\* as it was.
C30_FailedDeployKeepsIndex ==
    [][dlog' # dlog =>
         /\ derr'.kind \in BeforeIndexWrite => indexJson' = indexJson
         /\ derr'.kind \in {"Required", "ReadManifest", "NotValidPkg"} =>
               pkgsDir' = pkgsDir]_vars

\* C30 witness: the walk of pkgs/ failed on a manifest an earlier call left
\* unreadable; the index of the first call is still there and lacks the
\* manifests written since
C30_Witness ==
    /\ Len(dlog) = 3 /\ derr.kind = "WalkDir" /\ dlog[1].err = "none"
    /\ indexJson.kind = "index" /\ Len(indexJson.Packages) = 1
    /\ Cardinality(JsonFiles(pkgsDir)) = 3


-----------------------------------------------------------------------------
(* Two DeployPackage calls that run at the same time on one channel        *)

Calls == {1, 2}

\* the arguments of the two calls: different archives, different fingerprints
RaceArgs ==
    (1 :> [pkgFile |-> <<"a", ".", "p", "k", "g">>, manifestFile |-> <<"m", "1", ".", "j", "s", "o", "n">>])
    @@ (2 :> [pkgFile |-> <<"b", ".", "p", "k", "g">>, manifestFile |-> <<"m", "2", ".", "j", "s", "o", "n">>])

\* the channel before the calls: empty, or holding one deployed package
DeployedM3 ==
    LET m == Manifest(libfoo, v100, mips, api15)
        pkgBase == GenPkgFileName(m.Name, m.Version, m.Arch, m.OhosApi)
        manifestBase == GenPkgManifestName(m.Name, m.Version, m.Arch, m.OhosApi)
        dir == (pkgBase :> FileBytes(ArchiveA))
               @@ (manifestBase :> FileManifest(RewriteManifest(m, ArchiveA, pkgBase)))
    IN [pkgsDir |-> dir,
        indexJson |-> FileIndex(stable, <<ProjectManifest(dir[manifestBase].m, manifestBase)>>)]

RaceChannels == { [pkgsDir |-> EmptyMap, indexJson |-> NoFile], DeployedM3 }

\* the length of index.json in units: the header and one unit an entry
IndexSize(f) ==
    IF f.kind = "index" THEN 1 + Len(f.Packages)
    ELSE IF f.kind = "torn" THEN f.size
    ELSE 0

\* f.Write(data) of os.WriteFile: the bytes go to offset 0 of the file as it
\* is now; what lies behind them stays
WriteAtZero(f, data) ==
    IF IndexSize(f) > IndexSize(data)
    THEN [kind |-> "torn", size |-> IndexSize(f)]
    ELSE data

CallAt(p, pc) == p \in DOMAIN procs /\ procs[p].pc = pc

\* what the two calls leave alone
RaceRest == <<dpc, derr, dlog, rvars, tvars, cvars, fvars, uvars>>

\* DeployPackage up to the destination names
RaceStart ==
    \E p \in Calls :
        /\ CallAt(p, "start")
        /\ LET a == RaceArgs[p]
               r == ReadManifest(pkgsDir, a.manifestFile)
           IN procs' = [procs EXCEPT ![p] =
                          IF r.ok /\ isValidPkg(pkgsDir, a.pkgFile)
                          THEN [@ EXCEPT !.pc = "copy", !.manifest = r.m]
                          ELSE [@ EXCEPT !.pc = "failed"]]
        /\ UNCHANGED <<pkgsDir, indexJson, lastWriter, RaceRest>>

RaceCopy ==
    \E p \in Calls :
        /\ CallAt(p, "copy")
        /\ LET m == procs[p].manifest
               pkgBase == GenPkgFileName(m.Name, m.Version, m.Arch, m.OhosApi)
           IN /\ pkgsDir' = copyFile(pkgsDir, RaceArgs[p].pkgFile, pkgBase)
              /\ procs' = [procs EXCEPT ![p].pc = "open manifest",
                                        ![p].manifest =
                                            RewriteManifest(m, pkgsDir'[pkgBase].data, pkgBase)]
        /\ UNCHANGED <<indexJson, lastWriter, RaceRest>>

\* os.WriteFile of the manifest: O_CREATE|O_TRUNC leaves an empty file
RaceOpenManifest ==
    \E p \in Calls :
        /\ CallAt(p, "open manifest")
        /\ LET m == procs[p].manifest
           IN pkgsDir' = Put(pkgsDir, GenPkgManifestName(m.Name, m.Version, m.Arch, m.OhosApi),
                             CorruptFile)
        /\ procs' = [procs EXCEPT ![p].pc = "write manifest"]
        /\ UNCHANGED <<indexJson, lastWriter, RaceRest>>

RaceWriteManifest ==
    \E p \in Calls :
        /\ CallAt(p, "write manifest")
        /\ LET m == procs[p].manifest
           IN pkgsDir' = WriteManifest(pkgsDir,
                             GenPkgManifestName(m.Name, m.Version, m.Arch, m.OhosApi), m)
        /\ procs' = [procs EXCEPT ![p].pc = "read dir"]
        /\ UNCHANGED <<indexJson, lastWriter, RaceRest>>

\* filepath.WalkDir reads the names of pkgs/ once, in lexical order
RaceReadDir ==
    \E p \in Calls :
        /\ CallAt(p, "read dir")
        /\ procs' = [procs EXCEPT ![p].pc = "visit",
                                  ![p].names = WalkDir(JsonFiles(pkgsDir)),
                                  ![p].entries = <<>>]
        /\ UNCHANGED <<pkgsDir, indexJson, lastWriter, RaceRest>>

\* the callback of the walk on the next .json file, and the end of the walk
RaceVisit ==
    \E p \in Calls :
        /\ CallAt(p, "visit")
        /\ procs' = [procs EXCEPT ![p] =
             IF @.names = <<>>
             THEN [@ EXCEPT !.pc = "open index",
                            !.out = FileIndex(stable, procs[p].entries)]
             ELSE LET base == Head(procs[p].names)
                      r == ReadManifest(pkgsDir, PkgsPath \o base)
                  IN IF r.ok
                     THEN [@ EXCEPT !.names = Tail(procs[p].names),
                                    !.entries = Append(procs[p].entries,
                                                       ProjectManifest(r.m, base))]
                     ELSE [@ EXCEPT !.pc = "failed"]]
        /\ UNCHANGED <<pkgsDir, indexJson, lastWriter, RaceRest>>

\* os.WriteFile of index.json: O_CREATE|O_TRUNC leaves an empty file
RaceOpenIndex ==
    \E p \in Calls :
        /\ CallAt(p, "open index")
        /\ indexJson' = CorruptFile
        /\ procs' = [procs EXCEPT ![p].pc = "write index"]
        /\ UNCHANGED <<pkgsDir, lastWriter, RaceRest>>

RaceWriteIndex ==
    \E p \in Calls :
        /\ CallAt(p, "write index")
        /\ indexJson' = WriteAtZero(indexJson, procs[p].out)
        /\ lastWriter' = p
        /\ procs' = [procs EXCEPT ![p].pc = "done"]
        /\ UNCHANGED <<pkgsDir, RaceRest>>

RaceInit ==
    /\ \E ch \in RaceChannels : pkgsDir = ch.pkgsDir /\ indexJson = ch.indexJson
    /\ dpc = "idle" /\ derr = NoError /\ dlog = <<>>
    /\ procs = [p \in Calls |-> [pc |-> "start", manifest |-> <<>>, names |-> <<>>,
                                 entries |-> <<>>, out |-> NoFile]]
    /\ lastWriter = 0
    /\ ResolveIdle /\ TopoIdle /\ ClientIdle /\ FunIdle /\ RegistryIdle

RaceNext ==
    \/ RaceStart
    \/ RaceCopy
    \/ RaceOpenManifest
    \/ RaceWriteManifest
    \/ RaceReadDir
    \/ RaceVisit
    \/ RaceOpenIndex
    \/ RaceWriteIndex

SpecRace == RaceInit /\ [][RaceNext]_vars

RaceFinished == \A p \in Calls : procs[p].pc \in {"done", "failed"}

\* C24: when both concurrent Deploy calls have ended, index.json is exactly
\* the index assembled by the call whose write of index.json came last.
C24_LastWriterWins ==
    (procs # <<>> /\ RaceFinished /\ lastWriter # 0)
        => indexJson = procs[lastWriter].out

\* both calls wrote index.json, the second in time with the shorter index
C24_Torn ==
    /\ procs # <<>> /\ RaceFinished
    /\ \A p \in Calls : procs[p].pc = "done"
    /\ indexJson.kind = "torn"

\* the writes of index.json did not overlap and the last writer's index
\* omits a manifest that is under pkgs/
C24_Omits ==
    /\ procs # <<>> /\ RaceFinished /\ lastWriter # 0
    /\ indexJson = procs[lastWriter].out
    /\ Len(indexJson.Packages) < Cardinality(JsonFiles(pkgsDir))


-----------------------------------------------------------------------------
(* The installed-package registry and Client.Uninstall                     *)

MaxOps == 4

RegNames == {libfoo, libz}
RegVersions == {v100, v120}
RegPrefixes == {"/opt/a", "/opt/b"}

\* filepath.Join(prefix, name-version), kept as its parts
FinalDir(pfx, name, version) == <<pfx, name, version>>

\* filepath.Join(prefix, pkgName)
LinkPath(pfx, name) == <<pfx, name>>

\* filepath.Base of a final directory: name-version
BaseOfDir(dir) == <<dir[2], dir[3]>>

Row(version, path) == [Version |-> version, Path |-> path]

\* db.GetInstalled: the row of the primary key (name, prefix), or nil
NoRow == [nil |-> TRUE]
GetInstalled(name, pfx) == Lookup(db, <<name, pfx>>, NoRow)

\* db.InsertInstalled: INSERT OR REPLACE on the primary key
InsertInstalled(name, version, pfx, path) == Put(db, <<name, pfx>>, Row(version, path))

\* db.DeleteInstalled
DeleteInstalled(name, pfx) == Without(db, <<name, pfx>>)

\* os.RemoveAll: no error when the path does not exist
RemoveAll(ds, path) == ds \ {path}

\* the link at prefix/name goes when os.Readlink returns the recorded path
RemoveLink(row, name, pfx) ==
    IF LinkPath(pfx, name) \in DOMAIN links /\ links[LinkPath(pfx, name)] = row.Path
    THEN Without(links, LinkPath(pfx, name))
    ELSE links

UninstallFaults == {"none", "open", "query", "remove", "delete"}

UninstallOutcome(d, ds, ls, err) == [db |-> d, dirs |-> ds, links |-> ls, err |-> err]

\* an uninstall that removes the files and keeps the row
uninstallDB_KeepRecord(name, pfx, fault) ==
    LET inst == GetInstalled(name, pfx)
    IN IF fault = "query"
       THEN { UninstallOutcome(db, dirs, links, "GetInstalled") }
       ELSE IF inst = NoRow
       THEN { UninstallOutcome(db, dirs, links, "NotInstalled") }
       ELSE { UninstallOutcome(db, RemoveAll(dirs, inst.Path),
                               RemoveLink(inst, name, pfx), "none") }

\* uninstallDB: the outcomes of one call
uninstallDB(name, pfx, fault) ==
    LET inst == GetInstalled(name, pfx)
    IN IF fault = "query"
       THEN { UninstallOutcome(db, dirs, links, "GetInstalled") }
       ELSE IF inst = NoRow
       THEN { UninstallOutcome(db, dirs, links, "NotInstalled") }
       ELSE IF fault = "remove"
       THEN { UninstallOutcome(db, dirs, RemoveLink(inst, name, pfx), "RemoveAll") }
       ELSE IF fault = "delete"
       THEN { UninstallOutcome(db, RemoveAll(dirs, inst.Path),
                               RemoveLink(inst, name, pfx), "DeleteInstalled") }
       ELSE { UninstallOutcome(DeleteInstalled(name, pfx), RemoveAll(dirs, inst.Path),
                               RemoveLink(inst, name, pfx), "none") }

UninstallCall(name, pfx, fault, err) ==
    [op |-> "Uninstall", name |-> name, prefix |-> pfx, fault |-> fault, err |-> err]

\* Client.Uninstall: OpenDB creates the database file and the table, then
\* uninstallDB runs
Uninstall ==
    /\ Len(ulog) < MaxOps
    /\ \E name \in RegNames, pfx \in RegPrefixes, fault \in UninstallFaults :
          IF fault = "open"
          THEN /\ ulog' = Append(ulog, UninstallCall(name, pfx, fault, "OpenDB"))
               /\ UNCHANGED <<db, dbFile, dirs, links>>
          ELSE \E out \in uninstallDB(name, pfx, fault) :
                  /\ dbFile' = TRUE
                  /\ db' = out.db
                  /\ dirs' = out.dirs
                  /\ links' = out.links
                  /\ ulog' = Append(ulog, UninstallCall(name, pfx, fault, out.err))
    /\ UNCHANGED <<rvars, tvars, dvars, cvars, fvars, pvars>>

\* the install of the version that recorded prefix installs: the final
\* directory and the link of extract, then the row
RecordInstall ==
    /\ Len(ulog) < MaxOps
    /\ \E name \in RegNames, pfx \in RegPrefixes, version \in RegVersions :
          /\ GetInstalled(name, pfx) = NoRow
          /\ dbFile' = TRUE
          /\ dirs' = dirs \cup {FinalDir(pfx, name, version)}
          /\ links' = Put(links, LinkPath(pfx, name),
                          BaseOfDir(FinalDir(pfx, name, version)))
          /\ db' = InsertInstalled(name, version, pfx, FinalDir(pfx, name, version))
          /\ ulog' = Append(ulog, [op |-> "Install", name |-> name, prefix |-> pfx,
                                   fault |-> "none", err |-> "none"])
    /\ UNCHANGED <<rvars, tvars, dvars, cvars, fvars, pvars>>

RegistryInit ==
    /\ db = EmptyMap /\ dbFile = FALSE /\ dirs = {} /\ links = EmptyMap /\ ulog = <<>>
    /\ ResolveIdle /\ TopoIdle /\ DeployIdle /\ ClientIdle /\ FunIdle /\ RaceIdle

RegistryNext == Uninstall \/ RecordInstall

SpecRegistry == RegistryInit /\ [][RegistryNext]_vars

LastCall == ulog'[Len(ulog')]

\* the files and rows a call without a record must leave alone, and what a
\* call on a record does when no operation fails
UninstallEffects ==
    LET key == <<LastCall.name, LastCall.prefix>>
    IN /\ key \notin DOMAIN db =>
            /\ LastCall.err # "none"
            /\ db' = db /\ dirs' = dirs /\ links' = links
       /\ (key \in DOMAIN db /\ LastCall.fault = "none") =>
            /\ LastCall.err = "none"
            /\ key \notin DOMAIN db'
            /\ db[key].Path \notin dirs'
       /\ LastCall.err = "none" => key \in DOMAIN db

\* a second Uninstall of a key right after a successful one fails
SecondUninstallFails ==
    \A i \in 1..(Len(ulog) - 1) :
        (/\ ulog[i].op = "Uninstall" /\ ulog[i + 1].op = "Uninstall"
         /\ ulog[i].name = ulog[i + 1].name /\ ulog[i].prefix = ulog[i + 1].prefix
         /\ ulog[i].err = "none")
        => ulog[i + 1].err # "none"

InstallPrefix == "/opt/a"

\* the packages a returned install has merged into the prefix
InstalledNames == { ilog[i].pkg : i \in { j \in DOMAIN ilog : ilog[j].ev = "rmtmp" } }

\* C22: after a successful Install into an explicit prefix the registry holds
\* a row (name, prefix) with the installed version for every package it
\* installed, so that an Uninstall of it does not fail with `not installed`.
C22_InstallRecorded ==
    (ipc = "returned" /\ ierr = NoError) =>
        \A n \in InstalledNames :
            /\ GetInstalled(n, InstallPrefix) # NoRow
            /\ GetInstalled(n, InstallPrefix).Version = rret[n].Version
            /\ \A out \in uninstallDB(n, InstallPrefix, "none") : out.err # "NotInstalled"

\* an install of two packages returned success and the registry has no row
C22_Unrecorded ==
    /\ ipc = "returned" /\ ierr = NoError
    /\ Cardinality(InstalledNames) = 2
    /\ db = EmptyMap
    /\ \A n \in InstalledNames :
          \A out \in uninstallDB(n, InstallPrefix, "none") : out.err = "NotInstalled"


-----------------------------------------------------------------------------
(* The commands of oh-pkgmgr and the exit code (cmd/pkgmgr/main.go)        *)

\* what common.LoadConfig meets, and what the client operation returns once
\* it is called
ConfigStates == {"ok", "missing", "unreadable"}
OpResults == {"ok", "error"}

\* the invocations: the command, the number of positional arguments, the
\* state of the config file, the flags and the results of the calls made
ListInputs ==
    [cmd : {"list"}, nargs : {0}, config : ConfigStates, archFlag : {"", "arm"},
     op : OpResults]

AddInputs ==
    [cmd : {"add"}, nargs : {0, 1, 2}, config : ConfigStates,
     prefixFlag : {"", "bad", "/opt/a"}, op : OpResults \cup {"declined"}]

PatchCmdInputs ==
    [cmd : {"patch"}, nargs : {1, 2}, config : ConfigStates, absOk : BOOLEAN,
     dirExists : BOOLEAN, archOk : BOOLEAN, patch : [1..3 -> OpResults]]

CommandInputs == ListInputs \cup AddInputs \cup PatchCmdInputs

Nil == "nil"

\* listCmd.RunE
listCmd(in) ==
    IF in.config # "ok" THEN Nil
    ELSE IF in.op = "ok" THEN Nil ELSE "ListPackages"

\* installCmd.RunE; an install the user declined returns nil
installCmd(in) ==
    IF in.config # "ok" THEN Nil
    ELSE IF in.prefixFlag = "bad" THEN "GetAbsolutePath"
    ELSE IF in.op = "error" THEN "Install"
    ELSE Nil

\* patchCmd.RunE
patchCmd(in) ==
    IF in.config # "ok" THEN Nil
    ELSE IF ~in.absOk THEN "Abs"
    ELSE IF ~in.dirExists THEN "PrefixNotFound"
    ELSE IF ~in.archOk THEN "ArchError"
    ELSE IF \E i \in 1..3 : in.patch[i] = "error" THEN "PatchLibFiles"
    ELSE Nil

\* the positional-argument check of each command: none, MinimumNArgs(1),
\* ExactArgs(2)
ArgsValid(in) ==
    CASE in.cmd = "list" -> TRUE
      [] in.cmd = "add" -> in.nargs >= 1
      [] in.cmd = "patch" -> in.nargs = 2

\* root.Execute: the argument check, then RunE
Execute(in) ==
    IF ~ArgsValid(in) THEN "Args"
    ELSE CASE in.cmd = "list" -> listCmd(in)
           [] in.cmd = "add" -> installCmd(in)
           [] in.cmd = "patch" -> patchCmd(in)

\* main: os.Exit(1) on an error of Execute
ExitCode(in) == IF Execute(in) # Nil THEN 1 ELSE 0

CommandCall ==
    /\ fpc = "call"
    /\ fin \in CommandInputs
    /\ fout' = [err |-> Execute(fin), exit |-> ExitCode(fin)]
    /\ fpc' = "returned"
    /\ UNCHANGED <<fin, rvars, tvars, dvars, cvars, xvars>>

CommandInit ==
    /\ fin \in CommandInputs /\ fout = <<>> /\ fpc = "call"
    /\ ResolveIdle /\ TopoIdle /\ DeployIdle /\ ClientIdle /\ RaceIdle /\ RegistryIdle

CommandNext == CommandCall

SpecCommand == CommandInit /\ [][CommandNext]_vars

\* the operation of the command ran to its end without an error
Succeeded(in) ==
    /\ ArgsValid(in)
    /\ in.config = "ok"
    /\ CASE in.cmd = "list" -> in.op = "ok"
         [] in.cmd = "add" -> in.prefixFlag # "bad" /\ in.op = "ok"
         [] in.cmd = "patch" -> /\ in.absOk /\ in.dirExists /\ in.archOk
                                /\ \A i \in 1..3 : in.patch[i] = "ok"

\* the install reached the prompt and the user declined
Declined(in) ==
    /\ in.cmd = "add" /\ ArgsValid(in) /\ in.config = "ok"
    /\ in.prefixFlag # "bad" /\ in.op = "declined"

\* C23: a client command ends with exit code 0 exactly when its operation
\* succeeded or the user declined the confirmation; every error, a missing
\* or unreadable config file included, gives a non-zero exit code.
C23_ErrorsExitNonZero ==
    fpc = "returned" => (fout.exit = 0 <=> (Succeeded(fin) \/ Declined(fin)))

\* a command met a missing config file and ended with exit code 0
C23_ConfigErrorExitsZero ==
    /\ fpc = "returned" /\ fin.config = "missing" /\ ArgsValid(fin)
    /\ fout.exit = 0 /\ fout.err = Nil


-----------------------------------------------------------------------------
(* Client.PatchLibFiles                                                    *)

\* the lines of a .la or .pc file: a key and the text after it
Line(key, val) == [key |-> key, val |-> val]

\* an includedir value: what stands before the last /include, and after it
IncludeVal(base, rest) == [base |-> base, rest |-> rest]

InstallLibdir == "/new/lib"
NewPrefix == "/new"

OldLa == <<Line("other", "dlname"), Line("libdir", "/build/lib")>>
NewLa == <<Line("other", "dlname"), Line("libdir", InstallLibdir)>>
OldPc ==
    <<Line("prefix", "/build"), Line("libdir", "${prefix}/lib"),
      Line("includedir", IncludeVal("${prefix}", "/foo")), Line("other", "Libs")>>

RegularFile(content) == [regular |-> TRUE, content |-> content]
IrregularFile == [regular |-> FALSE, content |-> <<>>]

\* the library directories on disk: path of the directory -> files directly
\* under it (la) and under its pkgconfig directory (pc).  The directory
\* names hold no * ? \ and no - inside brackets.
LibDirs ==
    (<<"l", "i", "b">> :>
        [la |-> (<<"a", ".", "l", "a">> :> RegularFile(OldLa))
                @@ (<<"b", ".", "l", "a">> :> RegularFile(NewLa))
                @@ (<<"d", ".", "l", "a">> :> IrregularFile),
         pc |-> (<<"x", ".", "p", "c">> :> RegularFile(OldPc))])
    @@ (<<"l", "i", "b", "[", "1", "]">> :>
        [la |-> (<<"c", ".", "l", "a">> :> RegularFile(OldLa)), pc |-> EmptyMap])
    @@ (<<"l", "i", "b", "1">> :>
        [la |-> (<<"e", ".", "l", "a">> :> RegularFile(OldLa)), pc |-> EmptyMap])
    @@ (<<"[", "x">> :>
        [la |-> (<<"f", ".", "l", "a">> :> RegularFile(OldLa)), pc |-> EmptyMap])

\* the files of a tree as (directory, kind, name)
FilesOf(tree) ==
    { <<d, k, n>> : d \in DOMAIN tree, k \in {"la", "pc"},
                    n \in UNION { DOMAIN tree[dd][kk] : dd \in DOMAIN tree, kk \in {"la", "pc"} } }
    \cap { f \in (DOMAIN tree) \X {"la", "pc"} \X
                  UNION { DOMAIN tree[dd][kk] : dd \in DOMAIN tree, kk \in {"la", "pc"} } :
             f[3] \in DOMAIN tree[f[1]][f[2]] }

FileAt(tree, f) == tree[f[1]][f[2]][f[3]]

TgtLibdirs == DOMAIN LibDirs \cup { <<"g", "o", "n", "e">> }

PatchFaultKinds == {"none", "stat", "read", "write"}

\* the files whose operations can fail
FaultyFiles ==
    { <<<<"l", "i", "b">>, "la", <<"a", ".", "l", "a">>>>,
      <<<<"l", "i", "b">>, "la", <<"b", ".", "l", "a">>>>,
      <<<<"l", "i", "b">>, "pc", <<"x", ".", "p", "c">>>> }

PatchInputs == [tgtLibdir : TgtLibdirs, faults : [FaultyFiles -> PatchFaultKinds]]

FaultOf(in, f) == IF f \in FaultyFiles THEN in.faults[f] ELSE "none"

\* path.Match of a pattern without * ? \ against a name; a class is [chars]
RECURSIVE Match(_, _)
Match(pattern, name) ==
    IF pattern = <<>> THEN name = <<>>
    ELSE IF Head(pattern) = "["
    THEN LET close == CHOOSE i \in 2..Len(pattern) :
                         pattern[i] = "]" /\ \A j \in 2..(i - 1) : pattern[j] # "]"
         IN /\ name # <<>>
            /\ \E j \in 2..(close - 1) : pattern[j] = Head(name)
            /\ Match(SubSeq(pattern, close + 1, Len(pattern)), Tail(name))
    ELSE /\ name # <<>>
         /\ Head(name) = Head(pattern)
         /\ Match(Tail(pattern), Tail(name))

\* ErrBadPattern: a [ that is not closed, or an empty class
RECURSIVE BadPattern(_)
BadPattern(pattern) ==
    IF pattern = <<>> THEN FALSE
    ELSE IF Head(pattern) = "["
    THEN IF \E i \in 3..Len(pattern) : pattern[i] = "]"
         THEN LET close == CHOOSE i \in 3..Len(pattern) :
                              pattern[i] = "]" /\ \A j \in 3..(i - 1) : pattern[j] # "]"
              IN BadPattern(SubSeq(pattern, close + 1, Len(pattern)))
         ELSE TRUE
    ELSE BadPattern(Tail(pattern))

\* filepath.Glob(filepath.Join(dir, "*.la")) and its .pc twin: the directory
\* part is a pattern too
Glob(tree, dir, kind) ==
    IF BadPattern(dir) THEN [err |-> TRUE, files |-> {}]
    ELSE [err |-> FALSE,
          files |-> { f \in FilesOf(tree) : Match(dir, f[1]) /\ f[2] = kind }]

\* the replacements of the three regular expressions, line by line
PatchLine(kind, line) ==
    IF line.key = "libdir" THEN Line("libdir", InstallLibdir)
    ELSE IF kind = "pc" /\ line.key = "prefix" THEN Line("prefix", NewPrefix)
    ELSE IF kind = "pc" /\ line.key = "includedir"
    THEN Line("includedir", IncludeVal(NewPrefix, line.val.rest))
    ELSE line

PatchContent(kind, content) == [i \in DOMAIN content |-> PatchLine(kind, content[i])]

FileOutcome(file, err, wrote) == [file |-> file, err |-> err, wrote |-> wrote]

\* the body of the loops: stat, read, replace, write when changed
PatchFile(kind, file, fault) ==
    IF fault = "stat" THEN { FileOutcome(file, "stat", FALSE) }
    ELSE IF ~file.regular THEN { FileOutcome(file, "none", FALSE) }
    ELSE IF fault = "read" THEN { FileOutcome(file, "read", FALSE) }
    ELSE IF PatchContent(kind, file.content) = file.content
    THEN { FileOutcome(file, "none", FALSE) }
    ELSE IF fault = "write"
    THEN { FileOutcome(file, "write", FALSE),
           FileOutcome(RegularFile(<<>>), "write", TRUE) }
    ELSE { FileOutcome(RegularFile(PatchContent(kind, file.content)), "none", TRUE) }

PatchResult(err, outcomes) == [err |-> err, outcomes |-> outcomes]

\* PatchLibFiles: the outcomes of one call, each the error and what was done
\* to each file it visited
PatchLibFiles(in) ==
    IF in.tgtLibdir \notin DOMAIN LibDirs
    THEN { PatchResult("none", EmptyMap) }
    ELSE IF Glob(LibDirs, in.tgtLibdir, "la").err
    THEN { PatchResult("glob", EmptyMap) }
    ELSE LET visited == Glob(LibDirs, in.tgtLibdir, "la").files
                        \cup Glob(LibDirs, in.tgtLibdir, "pc").files
             all == UNION { PatchFile(f[2], FileAt(LibDirs, f), FaultOf(in, f)) :
                              f \in visited }
         IN { PatchResult(IF \E f \in visited : g[f].err # "none"
                          THEN "aggregated" ELSE "none", g) :
                g \in { h \in [visited -> all] :
                          \A f \in visited :
                              h[f] \in PatchFile(f[2], FileAt(LibDirs, f), FaultOf(in, f)) } }

PatchCall ==
    /\ fpc = "call"
    /\ fin \in PatchInputs
    /\ fout' \in PatchLibFiles(fin)
    /\ fpc' = "returned"
    /\ UNCHANGED <<fin, rvars, tvars, dvars, cvars, xvars>>

PatchInit ==
    /\ fin \in PatchInputs /\ fout = <<>> /\ fpc = "call"
    /\ ResolveIdle /\ TopoIdle /\ DeployIdle /\ ClientIdle /\ RaceIdle /\ RegistryIdle

PatchNext == PatchCall

SpecPatch == PatchInit /\ [][PatchNext]_vars

\* the .la files directly under tgtLibdir and the .pc files directly under
\* tgtLibdir/pkgconfig
Under(dir) == { f \in FilesOf(LibDirs) : f[1] = dir }

\* the file after the call
After(f) == IF f \in DOMAIN fout.outcomes THEN fout.outcomes[f].file ELSE FileAt(LibDirs, f)

Failed(f) == f \in DOMAIN fout.outcomes /\ fout.outcomes[f].err # "none"

\* C27: PatchLibFiles visits every .la file directly under tgtLibdir and
\* every .pc file directly under tgtLibdir/pkgconfig and no other file; a
\* regular file whose operations succeed ends patched, a file is written only
\* if the patched content differs, and the call returns an aggregated error
\* exactly when an operation on a file failed; a missing tgtLibdir gives
\* success and no change.
C27_PatchesEveryFile ==
    fpc = "returned" /\ fin \in PatchInputs =>
        /\ fin.tgtLibdir \notin DOMAIN LibDirs =>
              fout.err = "none" /\ fout.outcomes = EmptyMap
        /\ fin.tgtLibdir \in DOMAIN LibDirs =>
              /\ DOMAIN fout.outcomes = Under(fin.tgtLibdir)
              /\ \A f \in Under(fin.tgtLibdir) :
                    /\ (FileAt(LibDirs, f).regular /\ ~Failed(f)) =>
                          After(f).content = PatchContent(f[2], FileAt(LibDirs, f).content)
                    /\ fout.outcomes[f].wrote =>
                          PatchContent(f[2], FileAt(LibDirs, f).content)
                              # FileAt(LibDirs, f).content
              /\ fout.err # "none" <=> \E f \in Under(fin.tgtLibdir) : Failed(f)

\* the call on lib[1] returned success, left c.la of lib[1] alone and
\* rewrote e.la of lib1
C27_WrongDirectory ==
    /\ fpc = "returned" /\ fin \in PatchInputs
    /\ fin.tgtLibdir = <<"l", "i", "b", "[", "1", "]">>
    /\ fout.err = "none"
    /\ DOMAIN fout.outcomes = Under(<<"l", "i", "b", "1">>)
    /\ \A f \in DOMAIN fout.outcomes : fout.outcomes[f].wrote

\* the call on [x returned the error of Glob and patched nothing
C27_GlobError ==
    /\ fpc = "returned" /\ fin \in PatchInputs
    /\ fin.tgtLibdir = <<"[", "x">>
    /\ fout.err = "glob" /\ fout.outcomes = EmptyMap


-----------------------------------------------------------------------------
(* An installation that stops before the component merge                   *)

\* the prefix without the tmp directory of the current package
OutsideTmp(pre) == [pre EXCEPT !.tmp = Without(@, TmpDir(cur.name, cur.version))]

\* a step of extract that ends before the first component is copied
StepBeforeMerge == ipc = "extract" \/ (ipc = "merge" /\ ipc' = "crashed")

C26_ErrorWitness ==
    /\ ipc = "returned" /\ ierr = InstallError("ExtractTarGz")
    /\ cur.path \in DOMAIN cache
    /\ TmpDir(cur.name, cur.version) \in DOMAIN prefix.tmp
    /\ prefix.files = LooseFiles

====
